---- MODULE Spec2Model ----
(***************************************************************************)
(* i18n-table-editor: the key-path codec (flattenJson / unflattenJson),    *)
(* the catalog scan (collectData) and the webview command handler of the   *)
(* extension, as a state machine.                                          *)
(*                                                                         *)
(* JavaScript strings (field names, key paths, values) are sequences of    *)
(* one-character strings, so that building a key path, splitting it on    *)
(* '.' and matching name[digits] are computed, not assumed.                *)
(***************************************************************************)
EXTENDS Integers, Sequences, FiniteSets, TLC

VARIABLES
    disk,      \* the locale folder: language id -> content of <lang>.json
    readonly,  \* languages whose file rejects writes (writeFileSync throws)
    table,     \* what the last updateWebview() handed to the view
    view,      \* the cells renderTable drew from it
    msgs,      \* error notifications shown by the last handler
    prompts,   \* input boxes opened and not yet answered
    last,      \* the command the last handler processed (history)
    prev,      \* the folder as it was when that handler started (history)
    ncmd,      \* number of commands processed so far
    cpc,       \* codec harness: position
    cdoc,      \* codec harness: the document under test
    cflat,     \* codec harness: the flat catalog under test
    cout,      \* codec harness: result of unflattenJson
    cre,       \* codec harness: result of flattening cout again
    stack,     \* event loop: the callbacks that have started and not returned, newest first
    iolog,     \* event loop: the file reads and writes performed so far, in order (history)
    watch      \* event loop: file-watcher callbacks queued and not yet run

vars == <<disk, readonly, table, view, msgs, prompts, last, prev, ncmd,
          cpc, cdoc, cflat, cout, cre, stack, iolog, watch>>

----------------------------------------------------------------------------
(* Characters and strings                                                  *)

Lower == <<"a","b","c","d","e","f","g","h","i","j","k","l","m",
           "n","o","p","q","r","s","t","u","v","w","x","y","z">>
Upper == <<"A","B","C","D","E","F","G","H","I","J","K","L","M",
           "N","O","P","Q","R","S","T","U","V","W","X","Y","Z">>
DigitSeq == <<"0","1","2","3","4","5","6","7","8","9">>
Digits == {DigitSeq[i] : i \in 1..10}

IndexIn(c, s) == CHOOSE i \in 1..Len(s) : s[i] = c
DigitVal(c) == IndexIn(c, DigitSeq) - 1

\* UTF-16 code unit of a character (ASCII range)
CharCode(c) ==
    CASE c \in Digits -> 48 + DigitVal(c)
      [] \E i \in 1..26 : Lower[i] = c -> 96 + IndexIn(c, Lower)
      [] \E i \in 1..26 : Upper[i] = c -> 64 + IndexIn(c, Upper)
      [] c = " " -> 32
      [] c = "." -> 46
      [] c = "[" -> 91
      [] c = "]" -> 93
      [] c = "_" -> 95

\* a < b in the order of Array.prototype.sort() without comparator
RECURSIVE StrLess(_, _)
StrLess(a, b) ==
    IF b = <<>> THEN FALSE
    ELSE IF a = <<>> THEN TRUE
    ELSE IF Head(a) # Head(b) THEN CharCode(Head(a)) < CharCode(Head(b))
    ELSE StrLess(Tail(a), Tail(b))

\* parseInt of a run of decimal digits
RECURSIVE ParseInt(_)
ParseInt(ds) ==
    IF ds = <<>> THEN 0
    ELSE 10 * ParseInt(SubSeq(ds, 1, Len(ds) - 1)) + DigitVal(ds[Len(ds)])

\* String(n) / template literal `${index}` for a non-negative integer
RECURSIVE NatToStr(_)
NatToStr(n) ==
    IF n < 10 THEN <<DigitSeq[n + 1]>>
    ELSE NatToStr(n \div 10) \o <<DigitSeq[(n % 10) + 1]>>

\* a property name that JavaScript treats as an array index (canonical numeric string)
IsArrayIndex(name) ==
    /\ name # <<>>
    /\ \A i \in 1..Len(name) : name[i] \in Digits
    /\ (Len(name) > 1 => name[1] # "0")

\* key.split('.')
RECURSIVE SplitDot(_)
SplitDot(s) ==
    IF \E i \in 1..Len(s) : s[i] = "."
    THEN LET i == CHOOSE j \in 1..Len(s) : s[j] = "." /\ \A h \in 1..(j - 1) : s[h] # "."
         IN  <<SubSeq(s, 1, i - 1)>> \o SplitDot(SubSeq(s, i + 1, Len(s)))
    ELSE <<s>>

\* part.match(/^(.+)\[(\d+)\]$/): the digits are the maximal run before the final ']'
ArrayMatch(part) ==
    LET n == Len(part)
        starts == {j \in 1..n : \A h \in j..(n - 1) : part[h] \in Digits}
        d == IF starts = {} THEN n ELSE CHOOSE j \in starts : \A h \in starts : j <= h
    IN  IF /\ n >= 4
           /\ part[n] = "]"
           /\ d <= n - 1
           /\ d >= 3
           /\ part[d - 1] = "["
        THEN [ok |-> TRUE, arrayKey |-> SubSeq(part, 1, d - 2), digits |-> SubSeq(part, d, n - 1)]
        ELSE [ok |-> FALSE, arrayKey |-> <<>>, digits |-> <<>>]

----------------------------------------------------------------------------
(* JavaScript values                                                       *)

Str(s) == [t |-> "str", v |-> s]          \* a string
Prim(s) == [t |-> "prim", v |-> s]        \* number, boolean or null; s is String(value)
Obj(f) == [t |-> "obj", v |-> f]          \* f: the own properties in enumeration order
Arr(e) == [t |-> "arr", v |-> e, x |-> <<>>]   \* e: the elements; x: non-index properties
Undef == [t |-> "undef", v |-> <<>>]      \* undefined (also an array hole)
Field(k, v) == [k |-> k, v |-> v]

HasField(fs, k) == \E i \in 1..Len(fs) : fs[i].k = k
FieldAt(fs, k) == CHOOSE i \in 1..Len(fs) : fs[i].k = k
FieldNames(fs) == {fs[i].k : i \in 1..Len(fs)}

\* obj[k] = v on an ordinary object: an existing property keeps its place, a new
\* array-index name goes among the index names in numeric order, any other new
\* name goes last (OrdinaryOwnPropertyKeys order, which for-in follows)
PutEntry(fs, k, v) ==
    IF HasField(fs, k)
    THEN [fs EXCEPT ![FieldAt(fs, k)] = Field(k, v)]
    ELSE IF IsArrayIndex(k)
    THEN LET before == {i \in 1..Len(fs) : IsArrayIndex(fs[i].k) /\ ParseInt(fs[i].k) < ParseInt(k)}
             n == Cardinality(before)
         IN  SubSeq(fs, 1, n) \o <<Field(k, v)>> \o SubSeq(fs, n + 1, Len(fs))
    ELSE Append(fs, Field(k, v))

\* delete obj[k]
DeleteEntry(fs, k) ==
    IF HasField(fs, k)
    THEN SubSeq(fs, 1, FieldAt(fs, k) - 1) \o SubSeq(fs, FieldAt(fs, k) + 1, Len(fs))
    ELSE fs

\* Object.assign(target, source)
RECURSIVE ObjectAssign(_, _)
ObjectAssign(target, source) ==
    IF source = <<>> THEN target
    ELSE ObjectAssign(PutEntry(target, Head(source).k, Head(source).v), Tail(source))

\* the (name, value) pairs a for-in loop visits
ForIn(x) ==
    CASE x.t = "obj" -> x.v
      [] x.t = "arr" -> [i \in 1..Len(x.v) |-> Field(NatToStr(i - 1), x.v[i])] \o x.x
      [] x.t = "str" -> [i \in 1..Len(x.v) |-> Field(NatToStr(i - 1), Str(<<x.v[i]>>))]
      [] OTHER -> <<>>

----------------------------------------------------------------------------
(* flattenJson                                                             *)

\* the separator written even when there is no prefix
Dotted_Always(prefix, key) == prefix \o <<".">> \o key

\* newKey = prefix ? `${prefix}.${key}` : key
Dotted(prefix, key) == IF prefix # <<>> THEN prefix \o <<".">> \o key ELSE key
\* the index left out of the key of an array element
Indexed_Unnumbered(newKey, index) == newKey \o <<"[", "]">>

\* array positions counted from one
Indexed_OffByOne(newKey, index) == newKey \o <<"[">> \o NatToStr(index + 1) \o <<"]">>

\* `${newKey}[${index}]`
Indexed(newKey, index) == newKey \o <<"[">> \o NatToStr(index) \o <<"]">>

RECURSIVE flattenJson(_, _), FlattenEntries(_, _, _, _), FlattenItems(_, _, _, _)
RECURSIVE FlattenItems_ObjectsOnly(_, _, _, _)

\* a forEach that records the string and primitive elements and does not recurse
\* into an element that is an array
FlattenItems_ObjectsOnly(items, newKey, j, result) ==
    IF j > Len(items) THEN result
    ELSE LET item == items[j]
             at == Indexed(newKey, j - 1)
             r == CASE item.t \in {"str", "prim"} -> PutEntry(result, at, item.v)
                    [] item.t = "obj" -> ObjectAssign(result, flattenJson(item, at))
                    [] OTHER -> result
         IN  FlattenItems_ObjectsOnly(items, newKey, j + 1, r)

\* value.forEach((item, index) => ...) of flattenJson
FlattenItems(items, newKey, j, result) ==
    IF j > Len(items) THEN result
    ELSE LET item == items[j]
             at == Indexed(newKey, j - 1)
             r == CASE item.t = "str" -> PutEntry(result, at, item.v)
                    [] item.t \in {"obj", "arr"} -> ObjectAssign(result, flattenJson(item, at))
                    [] item.t = "undef" -> result      \* forEach skips a hole
                    [] item.t = "prim" -> PutEntry(result, at, item.v)
         IN  FlattenItems(items, newKey, j + 1, r)

\* the for-in loop of flattenJson
FlattenEntries(es, prefix, i, result) ==
    IF i > Len(es) THEN result
    ELSE LET value == es[i].v
             newKey == Dotted(prefix, es[i].k)
             r == CASE value.t = "str" -> PutEntry(result, newKey, value.v)
                    [] value.t = "arr" -> FlattenItems(value.v, newKey, 1, result)
                    [] value.t = "obj" -> ObjectAssign(result, flattenJson(value, newKey))
                    [] value.t = "prim" -> PutEntry(result, newKey, value.v)
         IN  FlattenEntries(es, prefix, i + 1, r)

flattenJson(obj, prefix) == FlattenEntries(ForIn(obj), prefix, 1, <<>>)

----------------------------------------------------------------------------
(* unflattenJson                                                           *)
(*                                                                         *)
(* `current` is a reference into `result`; it is kept as the list of       *)
(* property names that lead from result to it.  The module is compiled as  *)
(* an ES module, hence strict: assigning a property of a primitive string  *)
(* throws a TypeError, as does reading a property of undefined.  Property  *)
(* names "length" and "push" are outside the alphabets used here.          *)

Thrown == [ok |-> FALSE, doc |-> Undef]
Returned(d) == [ok |-> TRUE, doc |-> d]

\* !v for the values an unflattened tree holds
Falsy(v) == v.t = "undef" \/ (v.t = "str" /\ v.v = <<>>)

\* node[p]
GetProp(node, p) ==
    CASE node.t = "obj" ->
            IF HasField(node.v, p) THEN node.v[FieldAt(node.v, p)].v ELSE Undef
      [] node.t = "arr" ->
            IF IsArrayIndex(p)
            THEN IF ParseInt(p) < Len(node.v) THEN node.v[ParseInt(p) + 1] ELSE Undef
            ELSE IF HasField(node.x, p) THEN node.x[FieldAt(node.x, p)].v ELSE Undef
      [] node.t = "str" ->
            IF IsArrayIndex(p) /\ ParseInt(p) < Len(node.v)
            THEN Str(<<node.v[ParseInt(p) + 1]>>) ELSE Undef
      [] OTHER -> Undef

\* node[p] = v on an object or an array
SetProp(node, p, v) ==
    CASE node.t = "obj" -> Obj(PutEntry(node.v, p, v))
      [] node.t = "arr" ->
            IF IsArrayIndex(p)
            THEN LET i == ParseInt(p)
                 IN  [node EXCEPT !.v = [j \in 1..(IF i < Len(node.v) THEN Len(node.v) ELSE i + 1) |->
                                            IF j = i + 1 THEN v
                                            ELSE IF j <= Len(node.v) THEN node.v[j] ELSE Undef]]
            ELSE [node EXCEPT !.x = PutEntry(node.x, p, v)]

RECURSIVE GetAt(_, _)
GetAt(root, path) ==
    IF path = <<>> THEN root ELSE GetAt(GetProp(root, Head(path)), Tail(path))

RECURSIVE SetAt(_, _, _, _)
SetAt(root, path, p, v) ==
    IF path = <<>> THEN SetProp(root, p, v)
    ELSE SetProp(root, Head(path), SetAt(GetProp(root, Head(path)), Tail(path), p, v))

\* an `if` in place of the `while`: at most one filler is pushed
PushUntil_Once(a, arrayIndex, filler) ==
    IF Len(a.v) <= arrayIndex THEN [a EXCEPT !.v = Append(a.v, filler)] ELSE a

\* while (a.length <= arrayIndex) a.push(filler)
PushUntil(a, arrayIndex, filler) ==
    IF Len(a.v) <= arrayIndex
    THEN [a EXCEPT !.v = [j \in 1..(arrayIndex + 1) |-> IF j <= Len(a.v) THEN a.v[j] ELSE filler]]
    ELSE a

Step(root, cur) == [ok |-> TRUE, root |-> root, cur |-> cur]
StepThrows == [ok |-> FALSE, root |-> Undef, cur |-> <<>>]

\* the branch `if (arrayMatch)` of unflattenJson
ArrayStep(root, cur, m, isFinal, value) ==
    LET current == GetAt(root, cur)
        arrayIndex == ParseInt(m.digits)
        found == GetProp(current, m.arrayKey)
        root1 == IF Falsy(found) THEN SetAt(root, cur, m.arrayKey, Arr(<<>>)) ELSE root
        held == IF Falsy(found) THEN Arr(<<>>) ELSE found
        next == cur \o <<m.arrayKey, NatToStr(arrayIndex)>>
    IN  CASE held.t = "arr" ->
                LET grown == PushUntil(held, arrayIndex, IF isFinal THEN Str(<<>>) ELSE Obj(<<>>))
                    stored == IF isFinal THEN [grown EXCEPT !.v[arrayIndex + 1] = Str(value)] ELSE grown
                IN  Step(SetAt(root1, cur, m.arrayKey, stored), next)
          [] held.t = "str" ->
                \* a non-empty string: push is not a function; an index of it is read-only
                IF Len(held.v) <= arrayIndex \/ isFinal THEN StepThrows ELSE Step(root1, next)
          [] held.t = "obj" ->
                \* length is undefined, the loop does not run; the index is a field name
                IF isFinal
                THEN Step(SetAt(root1, cur \o <<m.arrayKey>>, NatToStr(arrayIndex), Str(value)), next)
                ELSE Step(root1, next)

\* an intermediate part always gets a fresh object, whatever is already there
PlainStep_AlwaysFresh(root, cur, part, isFinal, value) ==
    IF isFinal THEN Step(SetAt(root, cur, part, Str(value)), cur)
    ELSE Step(SetAt(root, cur, part, Obj(<<>>)), cur \o <<part>>)

\* the branch `else` (regular object property) of unflattenJson
PlainStep(root, cur, part, isFinal, value) ==
    LET found == GetProp(GetAt(root, cur), part)
    IN  IF isFinal THEN Step(SetAt(root, cur, part, Str(value)), cur)
        ELSE IF Falsy(found) \/ found.t # "obj"
        THEN Step(SetAt(root, cur, part, Obj(<<>>)), cur \o <<part>>)
        ELSE Step(root, cur \o <<part>>)

\* the loop over parts; once `current` is a string or undefined every path throws
RECURSIVE WalkParts(_, _, _, _, _)
WalkParts(root, cur, parts, i, value) ==
    IF i > Len(parts) THEN Returned(root)
    ELSE IF GetAt(root, cur).t \notin {"obj", "arr"} THEN Thrown
    ELSE LET m == ArrayMatch(parts[i])
             s == IF m.ok THEN ArrayStep(root, cur, m, i = Len(parts), value)
                  ELSE PlainStep(root, cur, parts[i], i = Len(parts), value)
         IN  IF s.ok THEN WalkParts(s.root, s.cur, parts, i + 1, value) ELSE Thrown

\* the loop `for (const key in flat)`
RECURSIVE UnflattenEntries(_, _, _)
UnflattenEntries(flat, i, result) ==
    IF i > Len(flat) THEN Returned(result)
    ELSE LET r == WalkParts(result, <<>>, SplitDot(flat[i].k), 1, flat[i].v)
         IN  IF r.ok THEN UnflattenEntries(flat, i + 1, r.doc) ELSE Thrown

\* [ok |-> FALSE] when the call throws, else the returned document in doc
unflattenJson(flat) == UnflattenEntries(flat, 1, Obj(<<>>))

\* JSON.parse(JSON.stringify(doc, null, 2)): what a later read of the written file yields
IsDefinedField(f) == f.v.t # "undef"
RECURSIVE JsonRoundTrip(_)
JsonRoundTrip(d) ==
    CASE d.t = "obj" -> LET kept == SelectSeq(d.v, IsDefinedField)
                        IN  Obj([i \in 1..Len(kept) |-> Field(kept[i].k, JsonRoundTrip(kept[i].v))])
      [] d.t = "arr" -> Arr([i \in 1..Len(d.v) |->
                                IF d.v[i].t = "undef" THEN Prim(<<"n","u","l","l">>)
                                ELSE JsonRoundTrip(d.v[i])])
      [] OTHER -> d

----------------------------------------------------------------------------
(* Comparison of values                                                    *)

ValueOf(fs, k) == fs[FieldAt(fs, k)].v

\* a flat catalog as a key -> value mapping (insertion order forgotten)
FlatMap(flat) == [k \in FieldNames(flat) |-> ValueOf(flat, k)]

\* a value with the order of object properties forgotten; deep equality of two
\* values is equality of their canonical forms
RECURSIVE Canon(_)
Canon(d) ==
    CASE d.t = "obj" -> [t |-> "obj", v |-> [k \in FieldNames(d.v) |-> Canon(ValueOf(d.v, k))]]
      [] d.t = "arr" -> [t |-> "arr", v |-> [i \in 1..Len(d.v) |-> Canon(d.v[i])],
                         x |-> [k \in FieldNames(d.x) |-> Canon(ValueOf(d.x, k))]]
      [] OTHER -> d

DeepEqual(d, e) == Canon(d) = Canon(e)

----------------------------------------------------------------------------
(* Bounded inputs of the codec                                             *)

MaxLen == 2          \* longest array of the generated documents
MaxEntries == 3      \* most entries of a generated flat catalog

Empty == <<>>
X == <<"x">>
Y == <<"y">>
One == <<"1">>
A == <<"a">>
B == <<"b">>
C == <<"c">>
AB == <<"a", ".", "b">>
A0 == <<"a", "[", "0", "]">>
A1 == <<"a", "[", "1", "]">>
A2 == <<"a", "[", "2", "]">>
A0B == <<"a", "[", "0", "]", ".", "b">>
A1B == <<"a", "[", "1", "]", ".", "b">>
B0 == <<"b", "[", "0", "]">>
Zero == <<"0">>
Hello == <<"h", "e", "l", "l", "o">>
HomeTitle == <<"h", "o", "m", "e", ".", "t", "i", "t", "l", "e">>
HomeItems0 == <<"h", "o", "m", "e", ".", "i", "t", "e", "m", "s", "[", "0", "]">>
HomeItems2 == <<"h", "o", "m", "e", ".", "i", "t", "e", "m", "s", "[", "2", "]">>
Home == <<"h", "o", "m", "e">>
Title == <<"t", "i", "t", "l", "e">>
Items == <<"i", "t", "e", "m", "s">>
Hi == <<"H", "i">>
OneWord == <<"o", "n", "e">>
Three == <<"t", "h", "r", "e", "e">>

\* JSON.parse of an object literal with the given members, in text order
MakeObj(fields) == Obj(ObjectAssign(<<>>, fields))

ObjectsOver(names, S) ==
    {Obj(<<>>)}
    \cup {MakeObj(<<Field(n, v)>>) : n \in names, v \in S}
    \cup {MakeObj(<<Field(n[1], v[1]), Field(n[2], v[2])>>) :
              n \in {p \in names \X names : p[1] # p[2]}, v \in S \X S}

ArraysOver(S) == UNION {{Arr(e) : e \in [1..n -> S]} : n \in 0..MaxLen}

Leaves == {Str(Empty), Str(X), Prim(One)}
Level1 == Leaves \cup ObjectsOver({A, B}, Leaves) \cup ArraysOver(Leaves)
Containers1 == Level1 \ Leaves

\* documents with ordinary field names, two container levels deep
PlainDocs == ObjectsOver({A, B}, Level1)

\* three container levels: {a: {n: w}} and {a: [w]} for a container w
DeepDocs ==
    {MakeObj(<<Field(A, MakeObj(<<Field(n, w)>>))>>) : n \in {A, B}, w \in Containers1}
    \cup {MakeObj(<<Field(A, Arr(<<w>>))>>) : w \in Containers1}

\* documents whose field names contain '.', brackets, digits only, or nothing
OddNames == {A, AB, Empty, A0, A1, Zero}
OddValues == {Str(Empty), Str(X), MakeObj(<<Field(B, Str(X))>>), Arr(<<Str(X)>>),
              MakeObj(<<Field(A, MakeObj(<<Field(B, Str(X))>>))>>)}
OddDocs == ObjectsOver(OddNames, OddValues)

\* documents whose root is not an object
RootArrays == ArraysOver(Leaves) \cup {Str(<<"x", "y">>), Prim(<<"n", "u", "l", "l">>)}

\* spec.md section 8, first scenario
ScenarioDoc ==
    MakeObj(<<Field(A, MakeObj(<<Field(B, Str(Hello)), Field(C, Arr(<<Str(X), Str(Y)>>))>>))>>)
ScenarioFlattened ==
    <<Field(AB, Hello), Field(<<"a", ".", "c", "[", "0", "]">>, X),
      Field(<<"a", ".", "c", "[", "1", "]">>, Y)>>

\* arrays that hold arrays, next to strings, numbers and objects, at the root field
\* and one object deeper
MixedArrays ==
    {Arr(<<Arr(<<Str(X), Str(Y)>>), Str(X)>>),
     Arr(<<Str(X), Arr(<<Prim(One), Str(Empty)>>)>>),
     Arr(<<Arr(<<Str(X)>>), Arr(<<Str(Y)>>)>>),
     Arr(<<MakeObj(<<Field(B, Str(X))>>), Arr(<<Str(Y)>>)>>)}
NestedArrayDocs ==
    {MakeObj(<<Field(A, w)>>) : w \in MixedArrays}
    \cup {MakeObj(<<Field(A, MakeObj(<<Field(B, w)>>))>>) : w \in MixedArrays}

DocUniverse ==
    PlainDocs \cup DeepDocs \cup OddDocs \cup RootArrays \cup NestedArrayDocs \cup {ScenarioDoc}

\* flat catalogs that did not come from flattenJson: every insertion order of up to
\* MaxEntries distinct keys
FlatKeys == {A, AB, A0, A1, A2, A0B, A1B, B0}
FlatEntries == {Field(k, v) : k \in FlatKeys, v \in {Empty, X}}
DistinctKeys(fs) == \A i, j \in 1..Len(fs) : i # j => fs[i].k # fs[j].k
FlatsOfLen(n) == {fs \in [1..n -> FlatEntries] : DistinctKeys(fs)}

\* spec.md section 8, second scenario
ScenarioFlat == <<Field(HomeTitle, Hi), Field(HomeItems0, OneWord), Field(HomeItems2, Three)>>
ScenarioUnflattened ==
    MakeObj(<<Field(Home, MakeObj(<<Field(Title, Str(Hi)),
                                    Field(Items, Arr(<<Str(OneWord), Str(Empty), Str(Three)>>))>>))>>)

FlatUniverse == UNION {FlatsOfLen(n) : n \in 0..MaxEntries} \cup {ScenarioFlat}

----------------------------------------------------------------------------
(* The locale folder and the scan (dataCollector)                          *)

En == <<"e", "n">>
Fr == <<"f", "r">>
Vi == <<"v", "i">>
LangUniverse == {En, Fr, Vi}

NoFile == [t |-> "nofile", v |-> <<>>]     \* no such file
Invalid == [t |-> "invalid", v |-> <<>>]   \* a file that cannot be read or is not JSON
Parses(content) == content.t \notin {"nofile", "invalid"}

\* a sort that compares the other way round
RECURSIVE SortStrings_Descending(_)
SortStrings_Descending(S) ==
    IF S = {} THEN <<>>
    ELSE LET m == CHOOSE k \in S : \A o \in S \ {k} : StrLess(o, k)
         IN  <<m>> \o SortStrings_Descending(S \ {m})

\* Array.from(set).sort()
RECURSIVE SortStrings(_)
SortStrings(S) ==
    IF S = {} THEN <<>>
    ELSE LET m == CHOOSE k \in S : \A o \in S \ {k} : StrLess(k, o)
         IN  <<m>> \o SortStrings(S \ {m})

\* fs.readdirSync: the entries of the folder, taken in name order
ReadDir(folder) == SortStrings({l \in DOMAIN folder : folder[l] # NoFile})

\* error.message of the exceptions the handlers catch
ReadFailed == "cannot read or parse the file"
WriteFailed == "cannot write the file"
TypeErrorThrown == "TypeError"
RenameFailed == "no such file"
NoError == "none"

\* showErrorMessage(`${text} ${lang}.json: ${error.message}`)
Msg(text, lang, message) == [text |-> text, lang |-> lang, message |-> message]
Range(s) == {s[i] : i \in 1..Len(s)}

\* languages.forEach(lang => { try { ... } catch { showErrorMessage } }) of collectDataFlat
RECURSIVE ScanEach(_, _, _, _)
ScanEach(folder, languages, i, acc) ==
    IF i > Len(languages) THEN acc
    ELSE LET lang == languages[i]
         IN  IF Parses(folder[lang])
             THEN LET flattened == flattenJson(folder[lang], <<>>)
                  IN  ScanEach(folder, languages, i + 1,
                               [acc EXCEPT !.data = [l \in DOMAIN acc.data \cup {lang} |->
                                                        IF l = lang THEN flattened ELSE acc.data[l]],
                                           !.allKeys = acc.allKeys \cup FieldNames(flattened),
                                           !.valid = Append(acc.valid, lang)])
             ELSE ScanEach(folder, languages, i + 1,
                           [acc EXCEPT !.errors = Append(acc.errors, Msg("Error reading", lang, ReadFailed))])

ScanStart == [data |-> <<>>, allKeys |-> {}, valid |-> <<>>, errors |-> <<>>]

\* a scan that gives a language whose file fails an empty catalog in data
collectDataFlat_EmptyOnFailure(folder) ==
    LET languages == ReadDir(folder)
        acc == ScanEach(folder, languages, 1, ScanStart)
    IN  [languages |-> languages, keys |-> SortStrings(acc.allKeys),
         data |-> [l \in Range(languages) |-> IF l \in DOMAIN acc.data THEN acc.data[l] ELSE <<>>],
         errors |-> acc.errors]

collectDataFlat(folder) ==
    LET languages == ReadDir(folder)
        acc == ScanEach(folder, languages, 1, ScanStart)
    IN  [languages |-> languages, keys |-> SortStrings(acc.allKeys), data |-> acc.data,
         errors |-> acc.errors]

\* a nested scan without the existsSync test: a folder that lacks the selected file is
\* read like any other and its failure is shown
collectDataNested_ReadMissing(folder) ==
    LET languageFolders == SortStrings(DOMAIN folder)
        acc == ScanEach(folder, languageFolders, 1, ScanStart)
    IN  [languages |-> SortStrings(Range(acc.valid)), keys |-> SortStrings(acc.allKeys),
         data |-> acc.data, errors |-> acc.errors]

\* Nested layout: every language id of the folder is a directory; folder[lang] is the
\* selected file inside it, NoFile when the directory lacks it (existsSync is false)
collectDataNested(folder) ==
    LET languageFolders == SortStrings(DOMAIN folder)
        present == SelectSeq(languageFolders, LAMBDA l : folder[l] # NoFile)
        acc == ScanEach(folder, present, 1, ScanStart)
    IN  [languages |-> SortStrings(Range(acc.valid)), keys |-> SortStrings(acc.allKeys),
         data |-> acc.data, errors |-> acc.errors]

collectData(folder) == collectDataFlat(folder)

NoTable == [languages |-> <<>>, keys |-> <<>>, data |-> <<>>]
TableOf(scan) == [languages |-> scan.languages, keys |-> scan.keys, data |-> scan.data]

\* an access to allData[col][key] without the guard throws when allData[col] is undefined
RenderCell_Unguarded(data, col, key) ==
    IF col \notin DOMAIN data THEN [threw |-> TRUE, text |-> Empty, missing |-> FALSE]
    ELSE [threw |-> FALSE,
          text |-> IF HasField(data[col], key) THEN ValueOf(data[col], key) ELSE Empty,
          missing |-> ~HasField(data[col], key) \/ ValueOf(data[col], key) = Empty]

\* const value = allData[col] && allData[col][key] ? allData[col][key] : '';
\* if (!value) td.classList.add('missing')
RenderCell(data, col, key) ==
    IF col \in DOMAIN data /\ HasField(data[col], key) /\ ValueOf(data[col], key) # Empty
    THEN [threw |-> FALSE, text |-> ValueOf(data[col], key), missing |-> FALSE]
    ELSE [threw |-> FALSE, text |-> Empty, missing |-> TRUE]

\* renderTable: one editable cell per language column and key row
renderTable(t) ==
    [c \in Range(t.languages) \X Range(t.keys) |-> RenderCell(t.data, c[1], c[2])]

NoView == renderTable(NoTable)

\* the last command handled; rescanned: its handler went on to call updateWebview()
NoCmd == [cmd |-> "none", key |-> <<>>, newKey |-> <<>>, lang |-> <<>>, value |-> <<>>,
          rescanned |-> FALSE, untouched |-> FALSE]
NoFolder == [l \in LangUniverse |-> NoFile]
NoPrompt == [kind |-> "none", lang |-> <<>>]

----------------------------------------------------------------------------
(* Codec harness: flattenJson and unflattenJson applied to bounded inputs  *)

\* the event-loop harness is not running
LoopIdle == stack = <<>> /\ iolog = <<>> /\ watch = 0

SystemIdle ==
    /\ LoopIdle
    /\ disk = NoFolder /\ readonly = {} /\ table = NoTable /\ view = NoView /\ msgs = <<>>
    /\ prompts = NoPrompt /\ last = NoCmd /\ prev = NoFolder /\ ncmd = 0

\* the codec harness is not running
CodecIdle == cpc = "off" /\ cdoc = Undef /\ cflat = <<>> /\ cout = Thrown /\ cre = <<>>

CodecInit ==
    /\ SystemIdle
    /\ cout = Thrown /\ cre = <<>>
    /\ \/ cpc = "doc" /\ cdoc \in DocUniverse /\ cflat = <<>>
       \/ cpc = "flat" /\ cdoc = Undef /\ cflat \in FlatUniverse

SystemVars == <<disk, readonly, table, view, msgs, prompts, last, prev, ncmd, stack, iolog, watch>>

\* flattenJson(doc)
CodecFlatten ==
    /\ cpc = "doc"
    /\ cflat' = flattenJson(cdoc, <<>>)
    /\ cpc' = "flat"
    /\ UNCHANGED <<SystemVars, cdoc, cout, cre>>

\* unflattenJson(flat)
CodecUnflatten ==
    /\ cpc = "flat"
    /\ cout' = unflattenJson(cflat)
    /\ cpc' = "rebuilt"
    /\ UNCHANGED <<SystemVars, cdoc, cflat, cre>>

\* flattenJson of the rebuilt document
CodecReflatten ==
    /\ cpc = "rebuilt"
    /\ cout.ok
    /\ cre' = flattenJson(cout.doc, <<>>)
    /\ cpc' = "reflat"
    /\ UNCHANGED <<SystemVars, cdoc, cflat, cout>>

CodecNext == CodecFlatten \/ CodecUnflatten \/ CodecReflatten

CodecSpec == CodecInit /\ [][CodecNext]_vars

----------------------------------------------------------------------------
(* Classes of documents and keys the codec claims speak of                 *)

\* a field name that is not empty and holds none of '.', '[' and ']'
PlainName(n) == n # <<>> /\ \A i \in 1..Len(n) : n[i] \notin {".", "[", "]"}

\* built only from objects, arrays and string leaves
RECURSIVE StringsOnly(_)
StringsOnly(d) ==
    CASE d.t = "str" -> TRUE
      [] d.t = "obj" -> \A i \in 1..Len(d.v) : StringsOnly(d.v[i].v)
      [] d.t = "arr" -> \A i \in 1..Len(d.v) : StringsOnly(d.v[i])
      [] OTHER -> FALSE

\* every field name, at every depth, is plain
RECURSIVE PlainNames(_)
PlainNames(d) ==
    CASE d.t = "obj" -> \A i \in 1..Len(d.v) : PlainName(d.v[i].k) /\ PlainNames(d.v[i].v)
      [] d.t = "arr" -> \A i \in 1..Len(d.v) : PlainNames(d.v[i])
      [] OTHER -> TRUE

\* every array, at every depth, holds only strings and objects
RECURSIVE ArraysOfStringsOrObjects(_)
ArraysOfStringsOrObjects(d) ==
    CASE d.t = "obj" -> \A i \in 1..Len(d.v) : ArraysOfStringsOrObjects(d.v[i].v)
      [] d.t = "arr" -> \A i \in 1..Len(d.v) :
                            d.v[i].t \in {"str", "obj"} /\ ArraysOfStringsOrObjects(d.v[i])
      [] OTHER -> TRUE

\* no object or array below the root is empty
RECURSIVE NoEmptyInside(_)
NoEmptyInside(d) ==
    CASE d.t = "obj" -> \A i \in 1..Len(d.v) :
                            /\ d.v[i].v.t \in {"obj", "arr"} => d.v[i].v.v # <<>>
                            /\ NoEmptyInside(d.v[i].v)
      [] d.t = "arr" -> \A i \in 1..Len(d.v) :
                            /\ d.v[i].t \in {"obj", "arr"} => d.v[i].v # <<>>
                            /\ NoEmptyInside(d.v[i])
      [] OTHER -> TRUE

\* A leaf position: the chain of (field name, array index or -1) that encloses it
Seg(n, i) == [n |-> n, i |-> i]
RenderSeg(s) == IF s.i < 0 THEN s.n ELSE s.n \o <<"[">> \o NatToStr(s.i) \o <<"]">>
RECURSIVE RenderPath(_)
RenderPath(segs) ==
    IF Len(segs) = 1 THEN RenderSeg(segs[1])
    ELSE RenderPath(SubSeq(segs, 1, Len(segs) - 1)) \o <<".">> \o RenderSeg(segs[Len(segs)])

\* the leaves of an object document whose arrays hold strings and objects, each with
\* its position; kinds says which leaves count ("str", "prim")
RECURSIVE LeavesOf(_, _, _)
LeavesOf(d, segs, kinds) ==
    UNION {LET f == d.v[i]
               here == Append(segs, Seg(f.k, -1))
           IN  CASE f.v.t = "obj" -> LeavesOf(f.v, here, kinds)
                 [] f.v.t = "arr" ->
                        UNION {LET at == Append(segs, Seg(f.k, j - 1))
                               IN  IF f.v.v[j].t = "obj" THEN LeavesOf(f.v.v[j], at, kinds)
                                   ELSE IF f.v.v[j].t \in kinds
                                   THEN {[segs |-> at, v |-> f.v.v[j].v]} ELSE {}
                               : j \in 1..Len(f.v.v)}
                 [] OTHER -> IF f.v.t \in kinds THEN {[segs |-> here, v |-> f.v.v]} ELSE {}
           : i \in 1..Len(d.v)}

EntrySet(flat) == {flat[i] : i \in 1..Len(flat)}

\* flat holds exactly one entry per leaf, keyed by the rendered position
OneEntryPerLeaf(flat, leaves) ==
    /\ Len(flat) = Cardinality(leaves)
    /\ EntrySet(flat) = {Field(RenderPath(l.segs), l.v) : l \in leaves}

\* A key path as steps from the root: a field name, or an index into an array
FieldStep(n) == <<"field", n>>
IndexStep(i) == <<"index", i>>
PartSteps(part) ==
    IF ArrayMatch(part).ok
    THEN <<FieldStep(ArrayMatch(part).arrayKey), IndexStep(ParseInt(ArrayMatch(part).digits))>>
    ELSE <<FieldStep(part)>>
RECURSIVE PartsSteps(_)
PartsSteps(parts) == IF parts = <<>> THEN <<>> ELSE PartSteps(Head(parts)) \o PartsSteps(Tail(parts))
KeySteps(key) == PartsSteps(SplitDot(key))

IsProperPrefix(p, q) == Len(p) < Len(q) /\ SubSeq(q, 1, Len(p)) = p

\* no key's path is a proper prefix of another key's path
PrefixFree(flat) ==
    \A i, j \in 1..Len(flat) : ~IsProperPrefix(KeySteps(flat[i].k), KeySteps(flat[j].k))

\* the arrays of a document, each with the steps that lead to it
RECURSIVE ArraysIn(_, _)
ArraysIn(d, steps) ==
    CASE d.t = "obj" ->
            UNION {ArraysIn(d.v[i].v, Append(steps, FieldStep(d.v[i].k))) : i \in 1..Len(d.v)}
      [] d.t = "arr" ->
            {[steps |-> steps, node |-> d]}
            \cup UNION {ArraysIn(d.v[i], Append(steps, IndexStep(i - 1))) : i \in 1..Len(d.v)}
      [] OTHER -> {}

\* the places where a key of flat addresses the array at steps: index and whether the
\* addressing segment is the key's final one
Addressing(flat, steps) ==
    UNION {LET parts == SplitDot(flat[e].k)
           IN  {[idx |-> ParseInt(ArrayMatch(parts[i]).digits), final |-> i = Len(parts)] :
                    i \in {h \in 1..Len(parts) :
                             /\ ArrayMatch(parts[h]).ok
                             /\ PartsSteps(SubSeq(parts, 1, h - 1))
                                  \o <<FieldStep(ArrayMatch(parts[h]).arrayKey)>> = steps}}
           : e \in 1..Len(flat)}

\* every array has length (largest addressed index) + 1, no hole, and a placeholder at
\* every index no key addresses ('' when only final segments address the array)
GapFilled(doc, flat) ==
    \A a \in ArraysIn(doc, <<>>) :
        LET by == Addressing(flat, a.steps)
            idxs == {b.idx : b \in by}
        IN  /\ by # {}
            /\ \E m \in idxs : (\A o \in idxs : o <= m) /\ Len(a.node.v) = m + 1
            /\ \A j \in 1..Len(a.node.v) :
                   /\ a.node.v[j].t # "undef"
                   /\ (j - 1) \notin idxs =>
                          /\ a.node.v[j] \in {Str(<<>>), Obj(<<>>)}
                          /\ (\A b \in by : b.final) => a.node.v[j] = Str(<<>>)

----------------------------------------------------------------------------
(* Claims about the codec, checked under CodecSpec                         *)

FromDoc == cdoc # Undef
Rebuilt == cpc \in {"rebuilt", "reflat"}

\* C1 as stated: for every document built only from objects, arrays and string
\* leaves (empty containers and arrays in arrays included),
\* unflattenJson(flattenJson(doc)) returns a document deep-equal to doc.
C1_AsStated ==
    (Rebuilt /\ FromDoc /\ StringsOnly(cdoc)) => (cout.ok /\ DeepEqual(cout.doc, cdoc))

RoundTrips(d) ==
    /\ d.t = "obj" /\ StringsOnly(d) /\ PlainNames(d)
    /\ ArraysOfStringsOrObjects(d) /\ NoEmptyInside(d)

\* C1 amended: the round trip is deep-equal for every object document built from
\* string leaves, non-empty objects and non-empty arrays of strings and objects,
\* whose field names are non-empty and hold none of '.', '[' and ']'.
C1_RoundTrip ==
    (Rebuilt /\ FromDoc /\ RoundTrips(cdoc)) => (cout.ok /\ DeepEqual(cout.doc, cdoc))

C1_Witness ==
    cpc = "rebuilt" /\ cdoc = ScenarioDoc /\ RoundTrips(cdoc) /\ cout.ok /\ DeepEqual(cout.doc, cdoc)

Flattened == cpc = "flat" /\ FromDoc

\* C3 as stated: for every object document whose arrays hold only strings or objects,
\* flattenJson yields exactly one entry per string leaf, keyed by the enclosing field
\* names joined with '.', an array element rendered as name[index], and nothing else.
C3_AsStated ==
    (Flattened /\ cdoc.t = "obj" /\ ArraysOfStringsOrObjects(cdoc)) =>
        OneEntryPerLeaf(cflat, LeavesOf(cdoc, <<>>, {"str"}))

\* C3 amended: for every such document whose field names are non-empty and hold none
\* of '.', '[' and ']', flattenJson yields exactly one entry per leaf (a string, or a
\* number, boolean or null field as its text), keyed as stated, and nothing else;
\* {a:{b:'hello',c:['x','y']}} yields {'a.b':'hello','a.c[0]':'x','a.c[1]':'y'}.
C3_Paths ==
    (Flattened /\ cdoc.t = "obj" /\ ArraysOfStringsOrObjects(cdoc) /\ PlainNames(cdoc)) =>
        /\ OneEntryPerLeaf(cflat, LeavesOf(cdoc, <<>>, {"str", "prim"}))
        /\ cdoc = ScenarioDoc => cflat = ScenarioFlattened

C3_Witness == Flattened /\ cdoc = ScenarioDoc /\ cflat = ScenarioFlattened

\* C4 as stated: for every flat catalog, each array unflattenJson builds has length
\* (largest addressed index) + 1, no hole, and a placeholder at every index no key
\* addresses; the scenario catalog yields {home:{title:'Hi',items:['one','','three']}}.
C4_AsStated ==
    (cpc = "rebuilt" /\ cout.ok) =>
        /\ GapFilled(cout.doc, cflat)
        /\ cflat = ScenarioFlat => DeepEqual(cout.doc, ScenarioUnflattened)

\* C4 amended: the same, for every flat catalog in which no key's path is a proper
\* prefix of another key's path.
C4_GapFilled ==
    (cpc = "rebuilt" /\ cout.ok /\ PrefixFree(cflat)) =>
        /\ GapFilled(cout.doc, cflat)
        /\ cflat = ScenarioFlat => DeepEqual(cout.doc, ScenarioUnflattened)

C4_Witness ==
    /\ cpc = "rebuilt" /\ cflat = ScenarioFlat /\ PrefixFree(cflat) /\ cout.ok
    /\ DeepEqual(cout.doc, ScenarioUnflattened)

----------------------------------------------------------------------------
(* Scan harness: collectDataFlat and collectDataNested applied to bounded  *)
(* folders                                                                 *)

Ab == <<"a", "b">>
UpperB == <<"B">>

\* what a language source may hold when it is scanned
ScanContents ==
    {NoFile,
     Invalid,
     MakeObj(<<>>),
     MakeObj(<<Field(B, Str(X)), Field(A, Str(Empty))>>),
     MakeObj(<<Field(A, MakeObj(<<Field(B, Str(X))>>)), Field(UpperB, Str(Y))>>),
     MakeObj(<<Field(Ab, Str(X)), Field(A, Arr(<<Str(X), Str(Y)>>))>>),
     MakeObj(<<Field(AB, Str(Y)), Field(Ab, Prim(One))>>)}

ScanInit ==
    /\ disk \in [LangUniverse -> ScanContents]
    /\ readonly = {} /\ table = NoTable /\ view = NoView /\ msgs = <<>> /\ prompts = NoPrompt
    /\ last = NoCmd /\ prev = NoFolder /\ ncmd = 0
    /\ CodecIdle /\ LoopIdle

\* collectDataFlat(folderPath)
ScanFlat ==
    /\ last.cmd = "none"
    /\ table' = TableOf(collectDataFlat(disk))
    /\ msgs' = collectDataFlat(disk).errors
    /\ last' = [NoCmd EXCEPT !.cmd = "scanFlat"]
    /\ UNCHANGED <<disk, readonly, view, prompts, prev, ncmd, cpc, cdoc, cflat, cout, cre,
                   stack, iolog, watch>>

\* collectDataNested(folderPath, selectedFile)
ScanNested ==
    /\ last.cmd = "none"
    /\ table' = TableOf(collectDataNested(disk))
    /\ msgs' = collectDataNested(disk).errors
    /\ last' = [NoCmd EXCEPT !.cmd = "scanNested"]
    /\ UNCHANGED <<disk, readonly, view, prompts, prev, ncmd, cpc, cdoc, cflat, cout, cre,
                   stack, iolog, watch>>

ScanNext == ScanFlat \/ ScanNested

ScanSpec == ScanInit /\ [][ScanNext]_vars

Scanned == last.cmd \in {"scanFlat", "scanNested"}
ParsedLanguages == {l \in LangUniverse : Parses(disk[l])}
CatalogKeys(l) == FieldNames(flattenJson(disk[l], <<>>))
Occurrences(keys, k) == Cardinality({i \in 1..Len(keys) : keys[i] = k})

\* C5: after a scan (collectDataFlat or collectDataNested) the keys list holds every
\* key of every successfully parsed language's flat catalog exactly once, holds no key
\* that is absent from all of them, and is ascending in code-unit order
C5_KeyUnion ==
    Scanned =>
        /\ \A l \in ParsedLanguages : \A k \in CatalogKeys(l) : Occurrences(table.keys, k) = 1
        /\ \A i \in 1..Len(table.keys) : \E l \in ParsedLanguages : table.keys[i] \in CatalogKeys(l)
        /\ \A i, j \in 1..Len(table.keys) : i < j => StrLess(table.keys[i], table.keys[j])

\* a scan of three sources: one unreadable, two parsed that share a key, and at least
\* three keys between them
C5_Witness ==
    /\ Scanned
    /\ \E l \in LangUniverse : disk[l] = Invalid
    /\ \E l, m \in ParsedLanguages : l # m /\ CatalogKeys(l) \cap CatalogKeys(m) # {}
    /\ Len(table.keys) >= 3
    /\ table.keys[1] = UpperB

----------------------------------------------------------------------------
(* The webview command handler (panel.webview.onDidReceiveMessage)         *)

MaxCommands == 2     \* commands the model lets the view send

\* flat[newKey] = ''
AddKeyEdit(flat, newKey) == PutEntry(flat, newKey, <<>>)

\* delete flat[message.key]
DeleteKeyEdit(flat, key) == DeleteEntry(flat, key)

\* if (flat[originalKey]) flat[newKey] = flat[originalKey]
DuplicateKeyEdit(flat, originalKey, newKey) ==
    IF HasField(flat, originalKey) /\ ValueOf(flat, originalKey) # <<>>
    THEN PutEntry(flat, newKey, ValueOf(flat, originalKey))
    ELSE flat

\* flat[message.key] = message.value
SaveCellEdit(flat, key, value) == PutEntry(flat, key, value)

Edit(cmd, flat) ==
    CASE cmd.cmd = "addKey" -> AddKeyEdit(flat, cmd.key)
      [] cmd.cmd = "deleteKey" -> DeleteKeyEdit(flat, cmd.key)
      [] cmd.cmd = "duplicateKey" -> DuplicateKeyEdit(flat, cmd.key, cmd.newKey)
      [] cmd.cmd = "saveCell" -> SaveCellEdit(flat, cmd.key, cmd.value)

ErrorText(cmd) ==
    CASE cmd.cmd = "addLanguage" -> "Error creating"
      [] cmd.cmd = "renameLanguage" -> "Error renaming"
      [] cmd.cmd = "addKey" -> "Error updating"
      [] cmd.cmd = "deleteKey" -> "Error deleting key from"
      [] cmd.cmd = "duplicateKey" -> "Error duplicating key in"
      [] cmd.cmd = "saveCell" -> "Error saving"

\* a write that puts an empty document in the file when unflattenJson threw
WriteBuilt_EmptyOnThrow(content, writable, built) ==
    IF ~built.ok THEN [ok |-> FALSE, content |-> Obj(<<>>), message |-> TypeErrorThrown]
    ELSE IF ~writable THEN [ok |-> FALSE, content |-> content, message |-> WriteFailed]
    ELSE [ok |-> TRUE, content |-> JsonRoundTrip(built.doc), message |-> NoError]

\* writeFileSync(filePath, JSON.stringify(built, null, 2)); nothing is written when
\* unflattenJson threw or the file rejects the write
WriteBuilt(content, writable, built) ==
    IF ~built.ok THEN [ok |-> FALSE, content |-> content, message |-> TypeErrorThrown]
    ELSE IF ~writable THEN [ok |-> FALSE, content |-> content, message |-> WriteFailed]
    ELSE [ok |-> TRUE, content |-> JsonRoundTrip(built.doc), message |-> NoError]

\* the try block of a handler for one file: parse, flatten, edit, unflatten, write;
\* ok is FALSE when any of them throws, and the file is then as it was
RewriteFile(content, writable, cmd) ==
    IF ~Parses(content) THEN [ok |-> FALSE, content |-> content, message |-> ReadFailed]
    ELSE WriteBuilt(content, writable, unflattenJson(Edit(cmd, flattenJson(content, <<>>))))

RECURSIVE ForEachLanguage(_, _, _, _, _), AfterRewrite(_, _, _, _, _, _)

\* a failure that ends the loop: the languages after the failing one are not processed
AfterRewrite_AbortOnFailure(languages, i, folder, cmd, errors, r) ==
    IF r.ok
    THEN ForEachLanguage(languages, i + 1, [folder EXCEPT ![languages[i]] = r.content], cmd, errors)
    ELSE [folder |-> folder,
          errors |-> Append(errors, Msg(ErrorText(cmd), languages[i], r.message))]

\* the catch block: showErrorMessage, and on to the next language
AfterRewrite(languages, i, folder, cmd, errors, r) ==
    ForEachLanguage(languages, i + 1, [folder EXCEPT ![languages[i]] = r.content], cmd,
                    IF r.ok THEN errors
                    ELSE Append(errors, Msg(ErrorText(cmd), languages[i], r.message)))

\* languages.forEach(lang => { try { ... } catch { showErrorMessage } })
ForEachLanguage(languages, i, folder, cmd, errors) ==
    IF i > Len(languages) THEN [folder |-> folder, errors |-> errors]
    ELSE AfterRewrite(languages, i, folder, cmd, errors,
                      RewriteFile(folder[languages[i]], languages[i] \notin readonly, cmd))

\* updateWebview() at the end of a handler: the folder is scanned and the result shown
Publish(cmd, folder, errors, shown) ==
    /\ disk' = folder
    /\ table' = TableOf(shown)
    /\ view' = renderTable(TableOf(shown))
    /\ msgs' = errors \o shown.errors
    /\ last' = [cmd EXCEPT !.rescanned = TRUE]
    /\ prev' = disk

Rescan(cmd, scanErrors, done) ==
    Publish(cmd, done.folder, scanErrors \o done.errors, collectData(done.folder))

EditScanned(cmd, scan) ==
    Rescan(cmd, scan.errors, ForEachLanguage(scan.languages, 1, disk, cmd, <<>>))

\* collectData, the loop over its languages, then updateWebview()
EditAllLanguages(cmd) == EditScanned(cmd, collectData(disk))

CodecVars == <<cpc, cdoc, cflat, cout, cre>>
LoopVars == <<stack, iolog, watch>>

\* keys the user types into an input box
TypedKeys == {A, B, AB, A0}

\* case 'addKey': showInputBox(...)
ReceiveAddKey ==
    /\ ncmd < MaxCommands
    /\ prompts' = [kind |-> "addKey", lang |-> <<>>]
    /\ ncmd' = ncmd + 1
    /\ UNCHANGED <<disk, readonly, table, view, msgs, last, prev, CodecVars, LoopVars>>

\* .then(newKey => { if (newKey) { ... } }) of case 'addKey'
AnswerAddKey ==
    /\ prompts.kind = "addKey"
    /\ \E newKey \in TypedKeys :
           EditAllLanguages([NoCmd EXCEPT !.cmd = "addKey", !.key = newKey])
    /\ prompts' = NoPrompt
    /\ UNCHANGED <<readonly, ncmd, CodecVars, LoopVars>>

\* the input box is dismissed (or left empty): the callback receives undefined (or '')
\* and does nothing
DismissPrompt ==
    /\ prompts.kind # "none"
    /\ prompts' = NoPrompt
    /\ UNCHANGED <<disk, readonly, table, view, msgs, last, prev, ncmd, CodecVars, LoopVars>>

\* case 'deleteKey', for a row of the table shown
DeleteKey ==
    /\ ncmd < MaxCommands
    /\ \E key \in Range(table.keys) :
           EditAllLanguages([NoCmd EXCEPT !.cmd = "deleteKey", !.key = key])
    /\ ncmd' = ncmd + 1
    /\ UNCHANGED <<readonly, prompts, CodecVars, LoopVars>>

\* case 'duplicateKey', for a row of the table shown; the view sends it only for a
\* non-empty newKey that differs from the row's key
DuplicateKey ==
    /\ ncmd < MaxCommands
    /\ \E originalKey \in Range(table.keys), newKey \in TypedKeys :
           /\ newKey # originalKey
           /\ EditAllLanguages([NoCmd EXCEPT !.cmd = "duplicateKey", !.key = originalKey,
                                             !.newKey = newKey])
    /\ ncmd' = ncmd + 1
    /\ UNCHANGED <<readonly, prompts, CodecVars, LoopVars>>

\* what the user may leave in a cell (handleCellBlur trims the text)
CellTexts == {Empty, X}

\* the text renderTable puts in the cell of (lang, key)
CellText(lang, key) ==
    IF lang \in DOMAIN table.data /\ HasField(table.data[lang], key)
    THEN ValueOf(table.data[lang], key) ELSE Empty

\* a catch block that shows nothing
ShowError_Silent(cmd, lang, message) ==
    /\ msgs' = <<>>
    /\ last' = cmd
    /\ prev' = disk
    /\ UNCHANGED <<disk, table, view>>

\* the catch block of a single-file command: the message is shown, updateWebview() is
\* not reached
ShowError(cmd, lang, message) ==
    /\ msgs' = <<Msg(ErrorText(cmd), lang, message)>>
    /\ last' = cmd
    /\ prev' = disk
    /\ UNCHANGED <<disk, table, view>>

\* the try/catch of case 'saveCell': updateWebview() is the last statement of the try
SaveOne(cmd, r) ==
    IF r.ok
    THEN Publish(cmd, [disk EXCEPT ![cmd.lang] = r.content], <<>>,
                 collectData([disk EXCEPT ![cmd.lang] = r.content]))
    ELSE ShowError(cmd, cmd.lang, r.message)

SaveCellOf(cmd) == SaveOne(cmd, RewriteFile(disk[cmd.lang], cmd.lang \notin readonly, cmd))

\* handleCellBlur posts saveCell when the cell's text differs from the value shown;
\* case 'saveCell' handles it
SaveCell ==
    /\ ncmd < MaxCommands
    /\ \E lang \in Range(table.languages), key \in Range(table.keys), value \in CellTexts :
           /\ value # CellText(lang, key)
           /\ SaveCellOf([NoCmd EXCEPT !.cmd = "saveCell", !.lang = lang, !.key = key,
                                       !.value = value])
    /\ ncmd' = ncmd + 1
    /\ UNCHANGED <<readonly, prompts, CodecVars, LoopVars>>

\* language codes the user types into an input box
TypedLanguages == {En, Fr}

\* case 'addLanguage': showInputBox(...)
ReceiveAddLanguage ==
    /\ ncmd < MaxCommands
    /\ prompts' = [kind |-> "addLanguage", lang |-> <<>>]
    /\ ncmd' = ncmd + 1
    /\ UNCHANGED <<disk, readonly, table, view, msgs, last, prev, CodecVars, LoopVars>>

\* writeFileSync(newFile, '{}'); updateWebview() inside the try
CreateFile(cmd) ==
    IF cmd.lang \notin readonly
    THEN Publish(cmd, [disk EXCEPT ![cmd.lang] = Obj(<<>>)], <<>>,
                 collectData([disk EXCEPT ![cmd.lang] = Obj(<<>>)]))
    ELSE ShowError(cmd, cmd.lang, WriteFailed)

\* .then(newLang => { if (newLang) { ... } }) of case 'addLanguage'
AnswerAddLanguage ==
    /\ prompts.kind = "addLanguage"
    /\ \E newLang \in TypedLanguages :
           CreateFile([NoCmd EXCEPT !.cmd = "addLanguage", !.lang = newLang])
    /\ prompts' = NoPrompt
    /\ UNCHANGED <<readonly, ncmd, CodecVars, LoopVars>>

\* case 'renameLanguage', for a language column of the table: showInputBox(...)
ReceiveRenameLanguage ==
    /\ ncmd < MaxCommands
    /\ \E lang \in Range(table.languages) : prompts' = [kind |-> "renameLanguage", lang |-> lang]
    /\ ncmd' = ncmd + 1
    /\ UNCHANGED <<disk, readonly, table, view, msgs, last, prev, CodecVars, LoopVars>>

\* the folder after fs.renameSync(oldFile, newFile): a file already at newFile is replaced
Renamed(folder, old, new) ==
    IF old = new THEN folder ELSE [folder EXCEPT ![new] = folder[old], ![old] = NoFile]

\* renameSync(oldFile, newFile); updateWebview() inside the try; renameSync throws
\* when oldFile is not there.  The write protection of a file moves with the file.
MoveFile(cmd) ==
    IF disk[cmd.lang] # NoFile
    THEN /\ Publish(cmd, Renamed(disk, cmd.lang, cmd.newKey), <<>>,
                    collectData(Renamed(disk, cmd.lang, cmd.newKey)))
         /\ readonly' = IF cmd.lang = cmd.newKey THEN readonly
                        ELSE (readonly \ {cmd.lang, cmd.newKey})
                                 \cup (IF cmd.lang \in readonly THEN {cmd.newKey} ELSE {})
    ELSE ShowError(cmd, cmd.lang, RenameFailed) /\ UNCHANGED readonly

\* .then(newName => { if (newName) { ... } }) of case 'renameLanguage'; the new name
\* travels in the newKey field of the command record
AnswerRenameLanguage ==
    /\ prompts.kind = "renameLanguage"
    /\ \E newName \in TypedLanguages :
           MoveFile([NoCmd EXCEPT !.cmd = "renameLanguage", !.lang = prompts.lang,
                                  !.newKey = newName])
    /\ prompts' = NoPrompt
    /\ UNCHANGED <<ncmd, CodecVars, LoopVars>>

\* case 'refresh': updateWebview()
Refresh ==
    /\ ncmd < MaxCommands
    /\ Publish([NoCmd EXCEPT !.cmd = "refresh"], disk, <<>>, collectData(disk))
    /\ ncmd' = ncmd + 1
    /\ UNCHANGED <<readonly, prompts, CodecVars, LoopVars>>

\* contents of en.json and vi.json when the panel opens
StartContents ==
    {Invalid,
     MakeObj(<<>>),
     MakeObj(<<Field(A, Str(X))>>),
     MakeObj(<<Field(A, Str(Hello))>>),
     MakeObj(<<Field(A, Str(Empty))>>),
     MakeObj(<<Field(A, MakeObj(<<Field(B, Str(X))>>))>>),
     MakeObj(<<Field(A, MakeObj(<<>>))>>),
     MakeObj(<<Field(A, Arr(<<Str(X), Str(Y)>>))>>),
     MakeObj(<<Field(B, Prim(One))>>)}

\* createWebview: the panel opens on a folder and updateWebview() runs once
Init ==
    /\ disk \in {[l \in LangUniverse |-> IF l = En THEN e ELSE IF l = Vi THEN v ELSE NoFile] :
                    e \in StartContents, v \in StartContents}
    /\ readonly \in {{}, {En}, {Vi}}
    /\ table = TableOf(collectData(disk))
    /\ view = renderTable(table)
    /\ msgs = collectData(disk).errors
    /\ prompts = NoPrompt
    /\ last = NoCmd
    /\ prev = disk
    /\ ncmd = 0
    /\ CodecIdle /\ LoopIdle

Next ==
    \/ ReceiveAddKey
    \/ AnswerAddKey
    \/ DismissPrompt
    \/ DeleteKey
    \/ DuplicateKey
    \/ SaveCell
    \/ ReceiveAddLanguage
    \/ AnswerAddLanguage
    \/ ReceiveRenameLanguage
    \/ AnswerRenameLanguage
    \/ Refresh

Spec == Init /\ [][Next]_vars

----------------------------------------------------------------------------
(* Claims about the key commands.  `prev` is the folder as the last        *)
(* command found it, `disk` the folder as it left it; a language's flat    *)
(* catalog re-scanned from disk is flattenJson of its file.                *)

Catalog(folder, l) == flattenJson(folder[l], <<>>)
Holds(folder, l, k) == Parses(folder[l]) /\ HasField(Catalog(folder, l), k)
Maps(folder, l, k, v) == Holds(folder, l, k) /\ ValueOf(Catalog(folder, l), k) = v
LanguageSet(folder) == {l \in LangUniverse : folder[l] # NoFile}

\* every language source was readable and parseable, and every file writable
AllSourcesSound == readonly = {} /\ \A l \in LanguageSet(prev) : Parses(prev[l])

\* C6 as stated: every language whose flat catalog maps k to a non-empty value v
\* before addKey(k) still maps k to v when re-scanned after the command.
C6_AsStated ==
    (last.cmd = "addKey" /\ AllSourcesSound) =>
        \A l \in LanguageSet(prev) :
            (Holds(prev, l, last.key) /\ ValueOf(Catalog(prev, l), last.key) # Empty) =>
                Maps(disk, l, last.key, ValueOf(Catalog(prev, l), last.key))

\* addKey("a") on en.json = {"a": "x"}: the translation is now ''
C6_Clobbered ==
    /\ last.cmd = "addKey" /\ last.key = A /\ AllSourcesSound
    /\ prev[En] = MakeObj(<<Field(A, Str(X))>>)
    /\ Maps(disk, En, A, Empty)

\* C7 as stated: after addKey(k) with every source readable, parseable and writable,
\* a re-scan shows k in the flat catalog of every language of the language set, mapped
\* to '' wherever k was absent before.
C7_AsStated ==
    (last.cmd = "addKey" /\ AllSourcesSound) =>
        \A l \in LanguageSet(prev) :
            /\ Holds(disk, l, last.key)
            /\ ~Holds(prev, l, last.key) => Maps(disk, l, last.key, Empty)

\* addKey("a[0]") on en.json = {"a": {"b": "x"}}: the key is not in the catalog after
C7_KeyMissing ==
    /\ last.cmd = "addKey" /\ last.key = A0 /\ AllSourcesSound
    /\ prev[En] = MakeObj(<<Field(A, MakeObj(<<Field(B, Str(X))>>))>>)
    /\ ~Holds(disk, En, A0)

\* C8 as stated: for every key of the table, object-field and array-element paths
\* alike, after deleteKey(k) with every source readable, parseable and writable a
\* re-scan shows no language whose flat catalog holds k.
C8_AsStated ==
    (last.cmd = "deleteKey" /\ AllSourcesSound) =>
        \A l \in LanguageSet(prev) : ~Holds(disk, l, last.key)

\* deleteKey("a[0]") on en.json = {"a": ["x", "y"]}: a[0] is back, as ''
C8_KeyBack ==
    /\ last.cmd = "deleteKey" /\ last.key = A0 /\ AllSourcesSound
    /\ prev[En] = MakeObj(<<Field(A, Arr(<<Str(X), Str(Y)>>))>>)
    /\ Maps(disk, En, A0, Empty)

\* C9 as stated: after duplicateKey(sourceKey, newKey), every language whose flat
\* catalog held sourceKey before, whatever string it held, holds both sourceKey and
\* newKey mapped to that same value when re-scanned.
C9_AsStated ==
    (last.cmd = "duplicateKey" /\ AllSourcesSound) =>
        \A l \in LanguageSet(prev) :
            Holds(prev, l, last.key) =>
                /\ Maps(disk, l, last.key, ValueOf(Catalog(prev, l), last.key))
                /\ Maps(disk, l, last.newKey, ValueOf(Catalog(prev, l), last.key))

\* duplicateKey("a", "b") where vi.json = {"a": ""}: vi gets no "b"
C9_EmptyNotCopied ==
    /\ last.cmd = "duplicateKey" /\ last.key = A /\ last.newKey = B /\ AllSourcesSound
    /\ prev[Vi] = MakeObj(<<Field(A, Str(Empty))>>)
    /\ Maps(disk, Vi, A, Empty) /\ ~Holds(disk, Vi, B)

\* C10 as stated: after duplicateKey(sourceKey, newKey), every language whose flat
\* catalog did not hold sourceKey has the same persisted document and the same flat
\* catalog as before the command.
C10_AsStated ==
    (last.cmd = "duplicateKey" /\ AllSourcesSound) =>
        \A l \in LanguageSet(prev) :
            ~Holds(prev, l, last.key) =>
                /\ DeepEqual(disk[l], prev[l])
                /\ FlatMap(Catalog(disk, l)) = FlatMap(Catalog(prev, l))

\* duplicateKey("a", "b") where vi.json = {"b": 1} has no "a": vi.json becomes {"b": "1"}
C10_Rewritten ==
    /\ last.cmd = "duplicateKey" /\ last.key = A /\ last.newKey = B /\ AllSourcesSound
    /\ prev[En] = MakeObj(<<Field(A, Str(X))>>)
    /\ prev[Vi] = MakeObj(<<Field(B, Prim(One))>>)
    /\ disk[Vi] = MakeObj(<<Field(B, Str(One))>>)

\* C11 as stated: after saveCell(lang, key, value) on a readable, parseable, writable
\* source, lang's re-scanned flat catalog maps key to value, and the persisted source
\* of every other language is unchanged.
C11_AsStated ==
    (last.cmd = "saveCell" /\ Parses(prev[last.lang]) /\ last.lang \notin readonly) =>
        /\ Maps(disk, last.lang, last.key, last.value)
        /\ \A l \in LangUniverse \ {last.lang} : disk[l] = prev[l]

\* saveCell(vi, "a[0]", "x") where vi.json = {"a": {"b": "x"}} and the row a[0] comes
\* from en.json: vi.json gets a field named "0" and the key a[0] is not in its catalog
C11_KeyNotSet ==
    /\ last.cmd = "saveCell" /\ last.lang = Vi /\ last.key = A0 /\ last.value = X
    /\ Vi \notin readonly
    /\ prev[Vi] = MakeObj(<<Field(A, MakeObj(<<Field(B, Str(X))>>))>>)
    /\ Holds(disk, Vi, <<"a", ".", "0">>) /\ ~Holds(disk, Vi, A0)

KeyAbsent(l, k) == l \notin DOMAIN table.data \/ ~HasField(table.data[l], k)

\* C12: for every language listed in the table and every key of the keys list that is
\* absent from the language's flat catalog (also when the language has no entry in
\* data), the view renders the cell empty and flagged missing, and raises no error;
\* en = {a:'Hello'}, vi = {} gives keys = ['a'] with data.vi['a'] absent.
C12_MissingCells ==
    /\ \A l \in Range(table.languages), k \in Range(table.keys) :
           KeyAbsent(l, k) => view[<<l, k>>] = [threw |-> FALSE, text |-> Empty, missing |-> TRUE]
    /\ (disk[En] = MakeObj(<<Field(A, Str(Hello))>>) /\ disk[Vi] = MakeObj(<<>>)
            /\ disk[Fr] = NoFile) =>
           (table.keys = <<A>> /\ Vi \in DOMAIN table.data /\ KeyAbsent(Vi, A))

\* after a command, a table with a language that has no entry in data (its file does
\* not parse) next to a language with keys: its cells are drawn empty and missing
C12_Witness ==
    /\ last.rescanned
    /\ disk[En] = Invalid /\ En \in Range(table.languages) /\ En \notin DOMAIN table.data
    /\ table.keys # <<>>
    /\ \A k \in Range(table.keys) : view[<<En, k>>].missing /\ ~view[<<En, k>>].threw

\* C13 as stated: after any scan every language of the returned languages list has an
\* entry in the returned data lookup, an empty flat catalog when its source failed to
\* read or parse.
C13_AsStated ==
    Scanned =>
        \A l \in Range(table.languages) :
            /\ l \in DOMAIN table.data
            /\ ~Parses(disk[l]) => table.data[l] = <<>>

\* a flat scan lists fr, whose file does not parse, and data has no entry for it
C13_NoEntry ==
    /\ last.cmd = "scanFlat"
    /\ disk[Fr] = Invalid /\ Fr \in Range(table.languages) /\ Fr \notin DOMAIN table.data
    /\ Parses(disk[En]) /\ En \in DOMAIN table.data /\ table.data[En] # <<>>

\* the texts of the leaf values of a document (strings, and numbers, booleans and
\* nulls as String(value)), one per leaf position, in document order
RECURSIVE LeafTexts(_), LeafTextsOfAll(_)
LeafTexts(d) ==
    CASE d.t \in {"str", "prim"} -> <<d.v>>
      [] d.t = "obj" -> LeafTextsOfAll([i \in 1..Len(d.v) |-> d.v[i].v])
      [] d.t = "arr" -> LeafTextsOfAll(d.v)
      [] OTHER -> <<>>
LeafTextsOfAll(ds) ==
    IF ds = <<>> THEN <<>> ELSE LeafTexts(Head(ds)) \o LeafTextsOfAll(Tail(ds))

TimesIn(texts, v) == Cardinality({i \in 1..Len(texts) : texts[i] = v})

\* one entry per leaf: as many entries as leaves, under distinct keys, and every text
\* as often among the entries as among the leaves
EntryPerLeaf(flat, d) ==
    /\ Len(flat) = Len(LeafTexts(d))
    /\ DistinctKeys(flat)
    /\ \A v \in Range(LeafTexts(d)) :
           TimesIn([i \in 1..Len(flat) |-> flat[i].v], v) = TimesIn(LeafTexts(d), v)

\* C14 as stated: for every document, distinct leaf positions are recorded under
\* distinct keys: the result has as many entries as the document has leaf values, and
\* no leaf is dropped or overwritten by another leaf's entry.
C14_AsStated == Flattened => EntryPerLeaf(cflat, cdoc)

\* C14 amended: the same, for every document whose root is an object or an array and
\* whose field names are non-empty and hold none of '.', '[' and ']'.
C14_Unique ==
    (Flattened /\ cdoc.t \in {"obj", "arr"} /\ PlainNames(cdoc)) => EntryPerLeaf(cflat, cdoc)

\* an array in an array, flattened: {"a": [["x", ...]]}
C14_Witness ==
    /\ Flattened /\ cdoc.t = "obj" /\ PlainNames(cdoc)
    /\ Len(cdoc.v) = 1 /\ cdoc.v[1].v.t = "arr" /\ Len(cdoc.v[1].v.v) = 1
    /\ cdoc.v[1].v.v[1].t = "arr" /\ Len(cdoc.v[1].v.v[1].v) >= 2
    /\ Len(cflat) = Len(cdoc.v[1].v.v[1].v)

KeyCommands == {"addKey", "deleteKey", "duplicateKey"}

\* the language's source could not be read or parsed, or its file rejects the write
SourceFails(l) == ~Parses(prev[l]) \/ l \in readonly

\* the last command's notification for l names l and carries the error's message
Reported(l) ==
    \E m \in Range(msgs) :
        /\ m.text = ErrorText(last) /\ m.lang = l
        /\ m.message \in (IF ~Parses(prev[l]) THEN {ReadFailed} ELSE {TypeErrorThrown, WriteFailed})

\* the file the command leaves for a language when its mutation is applied and
\* persisted: its catalog edited, rebuilt and written
Mutated(l) == RewriteFile(prev[l], TRUE, last)

\* C15: during addKey, deleteKey or duplicateKey a read, parse or write failure for
\* one language is reported for that language, and the mutation is still applied and
\* persisted to every other language, wherever the failing language comes in the
\* iteration order.
C15_BestEffort ==
    last.cmd \in KeyCommands =>
        \A l \in LanguageSet(prev) :
            IF SourceFails(l)
            THEN Reported(l) /\ disk[l] = prev[l]
            ELSE disk[l] = Mutated(l).content

\* en, first in the iteration order, fails; vi, after it, is mutated and persisted
C15_Witness ==
    /\ last.cmd \in KeyCommands
    /\ SourceFails(En) /\ Reported(En)
    /\ ~SourceFails(Vi) /\ Mutated(Vi).ok /\ disk[Vi] # prev[Vi] /\ disk[Vi] = Mutated(Vi).content

\* every source of the folder that does not read or parse has its scan notification
ScanReported ==
    \A l \in LanguageSet(disk) : ~Parses(disk[l]) => Msg("Error reading", l, ReadFailed) \in Range(msgs)

\* C16: every read, parse or write failure on a language source, during a scan
\* (updateWebview) or during a mutating command, produces a notification that names
\* the language and carries the error's message; none is swallowed.  A handler has no outcome other than completing:
\* every failure of a language source is caught in the handler.
C16_Surfaced ==
    /\ (last.cmd = "none" \/ last.rescanned) => ScanReported
    /\ last.cmd \in KeyCommands => \A l \in LanguageSet(prev) : SourceFails(l) => Reported(l)
    /\ (last.cmd = "saveCell" /\ SourceFails(last.lang)) => (Reported(last.lang) /\ disk = prev)
    /\ (last.cmd = "addLanguage" /\ last.lang \in readonly) =>
           (msgs = <<Msg("Error creating", last.lang, WriteFailed)>> /\ disk = prev)

\* a saveCell whose file rejects the write: the failure is shown for that language
C16_Witness ==
    /\ last.cmd = "saveCell" /\ last.lang \in readonly /\ Parses(prev[last.lang])
    /\ msgs = <<Msg("Error saving", last.lang, WriteFailed)>>

\* the commands of the panel that the handler has completed
PanelCommands ==
    {"addLanguage", "renameLanguage", "addKey", "deleteKey", "duplicateKey", "saveCell",
     "refresh"}

\* C17: every addLanguage, renameLanguage, addKey, deleteKey, duplicateKey, saveCell
\* or refresh command that the handler has completed was followed by a full re-scan
\* pushed to the view, whether its mutation succeeded or failed.
C17_AsStated ==
    last.cmd \in PanelCommands => last.rescanned

\* a saveCell whose write failed: the handler has completed with the error shown, the
\* view is the one rendered before the command and no re-scan was run
C17_NotRescanned ==
    /\ last.cmd = "saveCell" /\ last.lang \in readonly /\ Parses(prev[last.lang])
    /\ ~last.rescanned
    /\ disk = prev
    /\ msgs = <<Msg("Error saving", last.lang, WriteFailed)>>
    /\ view # NoView

\* The entries that the elements of the arrays of an object document are recorded
\* under: a string or primitive element i of the array at path p under p[i]; element
\* j of an element i that is itself an array under p[i][j] when `bracketed`, under
\* p[i].j otherwise.  Field names are joined with '.'.
PathOf(prefix, name) == IF prefix = <<>> THEN name ELSE prefix \o <<".">> \o name
Bracket(p, i) == p \o <<"[">> \o NatToStr(i) \o <<"]">>
InnerPath(p, i, j, bracketed) ==
    IF bracketed THEN Bracket(Bracket(p, i), j) ELSE Bracket(p, i) \o <<".">> \o NatToStr(j)
IsLeaf(v) == v.t \in {"str", "prim"}
RECURSIVE ArrayElementEntries(_, _, _)
ArrayElementEntries(d, prefix, bracketed) ==
    UNION {LET f == d.v[n]
               p == PathOf(prefix, f.k)
           IN  CASE f.v.t = "obj" -> ArrayElementEntries(f.v, p, bracketed)
                 [] f.v.t = "arr" ->
                        UNION {LET e == f.v.v[i]
                               IN  CASE IsLeaf(e) -> {Field(Bracket(p, i - 1), e.v)}
                                     [] e.t = "obj" ->
                                            ArrayElementEntries(e, Bracket(p, i - 1), bracketed)
                                     [] e.t = "arr" ->
                                            {Field(InnerPath(p, i - 1, j - 1, bracketed), e.v[j].v) :
                                                 j \in {k \in 1..Len(e.v) : IsLeaf(e.v[k])}}
                                     [] OTHER -> {}
                               : i \in 1..Len(f.v.v)}
                 [] OTHER -> {}
           : n \in 1..Len(d.v)}

RECURSIVE HeldAt(_, _)
HeldAt(node, steps) ==
    IF steps = <<>> THEN node
    ELSE LET s == Head(steps)
         IN  IF s[1] = "field"
             THEN IF node.t = "obj" /\ HasField(node.v, s[2])
                  THEN HeldAt(ValueOf(node.v, s[2]), Tail(steps)) ELSE Undef
             ELSE IF node.t = "arr" /\ s[2] < Len(node.v)
                  THEN HeldAt(node.v[s[2] + 1], Tail(steps)) ELSE Undef

\* the call returned and the last-processed key's value is stored at its path
LastKeyWins(out, flat) ==
    /\ out.ok
    /\ HeldAt(out.doc, KeySteps(flat[Len(flat)].k)) = Str(flat[Len(flat)].v)

\* C19: whenever a key needs a container (an object for a plain intermediate segment,
\* an array for a name[idx] segment) where an earlier-processed key left a value of
\* another shape, that value is replaced by a fresh container of the needed shape and
\* the later key's value is stored at its path: unflattenJson returns, and the value
\* of the last-processed key is found at its path through objects and arrays.
C19_AsStated ==
    (cpc = "rebuilt" /\ ~FromDoc /\ cflat # <<>>) => LastKeyWins(cout, cflat)

\* {a: 'x', 'a[0]': 'x'}: the string left by the first key is not replaced by an
\* array, and storing the index on it throws
C19_StringKept ==
    /\ cpc = "rebuilt" /\ ~FromDoc
    /\ cflat = <<Field(A, X), Field(A0, X)>>
    /\ ~cout.ok

\* {'a.b': 'x', 'a[0]': 'x'}: the object left by the first key is not replaced by an
\* array; the value is stored as its property '0'
C19_ObjectKept ==
    /\ cpc = "rebuilt" /\ ~FromDoc
    /\ cflat = <<Field(AB, X), Field(A0, X)>>
    /\ cout.ok
    /\ cout.doc = MakeObj(<<Field(A, Obj(<<Field(Zero, Str(X)), Field(B, Str(X))>>))>>)

FailedLanguages == {l \in LangUniverse : disk[l] = Invalid}

\* C20: when a language's source cannot be read or parsed, collectDataFlat reports the
\* failure for that language (and for no other), still lists the language in
\* languages, leaves it out of data, and returns every language that parses with its
\* full flat catalog in data and all of its keys in keys.
C20_FlatFailure ==
    last.cmd = "scanFlat" =>
        /\ \A l \in FailedLanguages :
               /\ Msg("Error reading", l, ReadFailed) \in Range(msgs)
               /\ l \in Range(table.languages)
               /\ l \notin DOMAIN table.data
        /\ {msgs[i].lang : i \in 1..Len(msgs)} = FailedLanguages
        /\ Len(msgs) = Cardinality(FailedLanguages)
        /\ \A l \in ParsedLanguages :
               /\ l \in Range(table.languages)
               /\ l \in DOMAIN table.data
               /\ table.data[l] = flattenJson(disk[l], <<>>)
               /\ CatalogKeys(l) \subseteq Range(table.keys)

\* a flat scan of a folder where en does not parse and fr and vi do, with different
\* non-empty catalogs
C20_Witness ==
    /\ last.cmd = "scanFlat"
    /\ disk[En] = Invalid /\ Parses(disk[Fr]) /\ Parses(disk[Vi])
    /\ table.languages = <<En, Fr, Vi>>
    /\ DOMAIN table.data = {Fr, Vi}
    /\ table.data[Fr] # <<>> /\ table.data[Vi] # <<>> /\ table.data[Fr] # table.data[Vi]
    /\ msgs = <<Msg("Error reading", En, ReadFailed)>>

\* C21: collectDataNested returns a language iff the selected file exists in that
\* language's folder and parses; a folder lacking the file is skipped with no
\* notification (only the files that exist and fail are reported); the returned
\* languages list is ascending without repetition and every returned language has an
\* entry in data, its flat catalog.
C21_NestedScan ==
    last.cmd = "scanNested" =>
        /\ Range(table.languages) = ParsedLanguages
        /\ \A i, j \in 1..Len(table.languages) :
               i < j => StrLess(table.languages[i], table.languages[j])
        /\ DOMAIN table.data = Range(table.languages)
        /\ \A l \in Range(table.languages) : table.data[l] = flattenJson(disk[l], <<>>)
        /\ {msgs[i].lang : i \in 1..Len(msgs)} = FailedLanguages
        /\ \A l \in LangUniverse : disk[l] = NoFile => \A i \in 1..Len(msgs) : msgs[i].lang # l

\* a nested scan of three language folders: fr lacks the selected file, en and vi hold
\* it and parse
C21_Witness ==
    /\ last.cmd = "scanNested"
    /\ disk[Fr] = NoFile /\ Parses(disk[En]) /\ Parses(disk[Vi])
    /\ table.languages = <<En, Vi>>
    /\ DOMAIN table.data = {En, Vi}
    /\ table.data[En] # <<>>
    /\ msgs = <<>>

----------------------------------------------------------------------------
(* The extension host's event loop.  A callback (a message from the        *)
(* webview, the completion of an input box, a file-watcher event) is a     *)
(* sequence of file reads and writes; `stack` holds the callbacks that     *)
(* have started and not returned.  A process outside the extension may     *)
(* write a language file at any moment.                                    *)

MaxTasks == 3        \* callbacks dispatched (commands, input-box completions, watcher events)
MaxExternal == 1     \* writes by a process outside the extension
MaxWatch == 1        \* watcher events queued at a time

External == 0        \* the id of the outside writer in iolog

Io(id, cmd, lang, op, content, ondisk) ==
    [id |-> id, cmd |-> cmd, lang |-> lang, op |-> op, content |-> content, ondisk |-> ondisk]

Task(id, cmd, pc, start) ==
    [id |-> id, cmd |-> cmd, pc |-> pc, todo |-> <<>>, buf |-> Undef, errors |-> <<>>,
     start |-> start]

\* a callback that starts while another has not returned
MayDispatch_Preempting(running) == TRUE

\* the handlers hold no await between their first read and their last write: the event
\* loop starts a callback only when the one before it has returned
MayDispatch(running) == running = <<>>

\* a handler that edits the catalog the view was given instead of reading the file
ReadSource_FromTable(lang) ==
    IF lang \in DOMAIN table.data /\ unflattenJson(table.data[lang]).ok
    THEN JsonRoundTrip(unflattenJson(table.data[lang]).doc) ELSE Invalid

\* JSON.parse(fs.readFileSync(filePath, 'utf8'))
ReadSource(lang) == disk[lang]

\* the reads of collectData: every file of the folder, in directory order
ScanReads(t) ==
    [i \in 1..Len(ReadDir(disk)) |->
        Io(t.id, t.cmd, ReadDir(disk)[i], "read", disk[ReadDir(disk)[i]], disk[ReadDir(disk)[i]])]

Queued(n) == IF n < MaxWatch THEN n + 1 ELSE n

LoopContents == {MakeObj(<<Field(A, Str(X))>>), MakeObj(<<>>)}
ExternalContents ==
    {MakeObj(<<Field(A, Str(X)), Field(B, Str(Y))>>), Invalid}

LoopInit ==
    /\ disk \in {[l \in LangUniverse |-> IF l = En THEN e ELSE IF l = Vi THEN v ELSE NoFile] :
                    e \in LoopContents, v \in LoopContents}
    /\ readonly = {}
    /\ table = TableOf(collectData(disk))
    /\ view = renderTable(table)
    /\ msgs = collectData(disk).errors
    /\ prompts = NoPrompt /\ last = NoCmd /\ prev = disk /\ ncmd = 0
    /\ CodecIdle /\ LoopIdle

Dispatch(cmd, pc) ==
    /\ ncmd < MaxTasks
    /\ MayDispatch(stack)
    /\ stack' = <<Task(ncmd + 1, cmd, pc, disk)>> \o stack
    /\ ncmd' = ncmd + 1

\* the webview posts saveCell; case 'saveCell' starts
PostSaveCell ==
    /\ \E lang \in Range(table.languages), key \in Range(table.keys), value \in CellTexts :
           /\ value # CellText(lang, key)
           /\ Dispatch([NoCmd EXCEPT !.cmd = "saveCell", !.lang = lang, !.key = key,
                                     !.value = value], "read")
    /\ UNCHANGED <<disk, readonly, table, view, msgs, prompts, last, prev, iolog, watch, CodecVars>>

\* the webview posts deleteKey; case 'deleteKey' starts
PostDeleteKey ==
    /\ \E key \in Range(table.keys) :
           Dispatch([NoCmd EXCEPT !.cmd = "deleteKey", !.key = key], "list")
    /\ UNCHANGED <<disk, readonly, table, view, msgs, prompts, last, prev, iolog, watch, CodecVars>>

\* the webview posts duplicateKey; case 'duplicateKey' starts
PostDuplicateKey ==
    /\ \E originalKey \in Range(table.keys) :
           /\ originalKey # B
           /\ Dispatch([NoCmd EXCEPT !.cmd = "duplicateKey", !.key = originalKey, !.newKey = B],
                       "list")
    /\ UNCHANGED <<disk, readonly, table, view, msgs, prompts, last, prev, iolog, watch, CodecVars>>

\* the webview posts addKey; case 'addKey' opens the input box and returns
PostAddKey ==
    /\ ncmd < MaxTasks
    /\ MayDispatch(stack)
    /\ prompts.kind = "none"
    /\ prompts' = [kind |-> "addKey", lang |-> <<>>]
    /\ UNCHANGED <<disk, readonly, table, view, msgs, last, prev, ncmd, stack, iolog, watch,
                   CodecVars>>

\* the input box completes with a key: the then-callback of case 'addKey' starts
AnswerPrompt ==
    /\ prompts.kind = "addKey"
    /\ Dispatch([NoCmd EXCEPT !.cmd = "addKey", !.key = B], "list")
    /\ prompts' = NoPrompt
    /\ UNCHANGED <<disk, readonly, table, view, msgs, last, prev, iolog, watch, CodecVars>>

\* watcher.onDidChange(() => updateWebview())
WatcherFires ==
    /\ watch > 0
    /\ Dispatch([NoCmd EXCEPT !.cmd = "watch"], "scan")
    /\ watch' = watch - 1
    /\ UNCHANGED <<disk, readonly, table, view, msgs, prompts, last, prev, iolog, CodecVars>>

\* another process rewrites a language file; the watcher queues an event
ExternalWrite ==
    /\ Cardinality({i \in 1..Len(iolog) : iolog[i].id = External}) < MaxExternal
    /\ \E lang \in {En, Vi}, c \in ExternalContents :
           /\ disk' = [disk EXCEPT ![lang] = c]
           /\ iolog' = Append(iolog, Io(External, NoCmd, lang, "write", c, c))
    /\ watch' = Queued(watch)
    /\ UNCHANGED <<readonly, table, view, msgs, prompts, last, prev, ncmd, stack, CodecVars>>

Running == Head(stack)
TaskLang(t) == IF t.cmd.cmd = "saveCell" THEN t.cmd.lang ELSE Head(t.todo)

\* the callback returns
Return(t, errors, rescanned) ==
    /\ stack' = Tail(stack)
    /\ msgs' = errors
    /\ last' = [t.cmd EXCEPT !.rescanned = rescanned]
    /\ prev' = t.start

\* where a handler goes after the try/catch of one language
AfterLanguage(t) ==
    IF t.cmd.cmd = "saveCell" THEN [t EXCEPT !.pc = "scan"]
    ELSE [t EXCEPT !.todo = Tail(t.todo), !.pc = IF Len(t.todo) > 1 THEN "read" ELSE "scan"]

\* const { languages } = collectData(currentFolderPath)
StepList ==
    /\ stack # <<>> /\ Running.pc = "list"
    /\ iolog' = iolog \o ScanReads(Running)
    /\ stack' = <<[Running EXCEPT !.todo = collectData(disk).languages,
                                  !.errors = collectData(disk).errors,
                                  !.pc = IF collectData(disk).languages = <<>> THEN "scan"
                                         ELSE "read"]>> \o Tail(stack)
    /\ UNCHANGED <<disk, readonly, table, view, msgs, prompts, last, prev, ncmd, watch, CodecVars>>

\* the catch block after a failed read or write of lang
Caught(t, lang, message) ==
    IF t.cmd.cmd = "saveCell"
    THEN /\ Return(t, <<Msg(ErrorText(t.cmd), lang, message)>>, FALSE)
         /\ UNCHANGED <<table, view>>
    ELSE /\ stack' = <<[AfterLanguage(t) EXCEPT
                           !.errors = Append(t.errors, Msg(ErrorText(t.cmd), lang, message))]>>
                     \o Tail(stack)
         /\ UNCHANGED <<table, view, msgs, last, prev>>

\* const json = JSON.parse(fs.readFileSync(filePath, 'utf8'))
StepRead ==
    /\ stack # <<>> /\ Running.pc = "read"
    /\ iolog' = Append(iolog, Io(Running.id, Running.cmd, TaskLang(Running), "read",
                                 ReadSource(TaskLang(Running)), disk[TaskLang(Running)]))
    /\ IF Parses(ReadSource(TaskLang(Running)))
       THEN /\ stack' = <<[Running EXCEPT !.buf = ReadSource(TaskLang(Running)),
                                          !.pc = "write"]>> \o Tail(stack)
            /\ UNCHANGED <<table, view, msgs, last, prev>>
       ELSE Caught(Running, TaskLang(Running), ReadFailed)
    /\ UNCHANGED <<disk, readonly, prompts, ncmd, watch, CodecVars>>

\* flatten, edit, unflatten and fs.writeFileSync(filePath, ...)
WriteStep(t, lang, r) ==
    IF r.ok
    THEN /\ disk' = [disk EXCEPT ![lang] = r.content]
         /\ iolog' = Append(iolog, Io(t.id, t.cmd, lang, "write", r.content, disk[lang]))
         /\ watch' = Queued(watch)
         /\ stack' = <<AfterLanguage(t)>> \o Tail(stack)
         /\ UNCHANGED <<table, view, msgs, last, prev>>
    ELSE /\ Caught(t, lang, r.message)
         /\ UNCHANGED <<disk, iolog, watch>>

StepWrite ==
    /\ stack # <<>> /\ Running.pc = "write"
    /\ WriteStep(Running, TaskLang(Running),
                 RewriteFile(Running.buf, TaskLang(Running) \notin readonly, Running.cmd))
    /\ UNCHANGED <<readonly, prompts, ncmd, CodecVars>>

\* updateWebview(): collectData and the hand-over to the view
StepScan ==
    /\ stack # <<>> /\ Running.pc = "scan"
    /\ iolog' = iolog \o ScanReads(Running)
    /\ table' = TableOf(collectData(disk))
    /\ view' = renderTable(TableOf(collectData(disk)))
    /\ Return(Running, Running.errors \o collectData(disk).errors, TRUE)
    /\ UNCHANGED <<disk, readonly, prompts, ncmd, watch, CodecVars>>

LoopNext ==
    \/ PostSaveCell
    \/ PostDeleteKey
    \/ PostDuplicateKey
    \/ PostAddKey
    \/ AnswerPrompt
    \/ WatcherFires
    \/ ExternalWrite
    \/ StepList
    \/ StepRead
    \/ StepWrite
    \/ StepScan

LoopSpec == LoopInit /\ [][LoopNext]_vars

\* the read and the write of one callback on the same source, with what lies between
Cycle(i, j) ==
    /\ i < j
    /\ iolog[i].id = iolog[j].id /\ iolog[i].id # External
    /\ iolog[i].lang = iolog[j].lang
    /\ iolog[i].op = "read" /\ iolog[j].op = "write"

\* C22: for every interleaving of webview commands, input-box completions and
\* file-watcher callbacks, between the read and the write-back of one callback's
\* read-modify-write cycle on a language source there is no read or write of that
\* source by another callback of the extension, and every write by the extension puts
\* back the edit of what that source held just before the write, unless a process
\* outside the extension wrote it in between.
C22_NoOverlap ==
    \A i, j \in 1..Len(iolog) :
        Cycle(i, j) =>
            /\ \A k \in (i + 1)..(j - 1) :
                   iolog[k].lang = iolog[i].lang => iolog[k].id \in {iolog[i].id, External}
            /\ (\A k \in (i + 1)..(j - 1) : iolog[k].id # External) =>
                   iolog[j].ondisk = iolog[i].content

\* two commands have each read and written en.json, one after the other, and a
\* watcher callback has scanned the folder
C22_Witness ==
    \E i, j, k, l \in 1..Len(iolog) :
        /\ Cycle(i, j) /\ Cycle(k, l) /\ j < k
        /\ iolog[i].lang = En /\ iolog[k].lang = En
        /\ iolog[i].id # iolog[k].id
        /\ \E w \in 1..Len(iolog) : iolog[w].cmd.cmd = "watch"

\* the read that a write of the extension puts back: the latest read of the same
\* source by the same callback
ReadOf(j) ==
    CHOOSE i \in 1..(j - 1) :
        /\ Cycle(i, j)
        /\ \A k \in (i + 1)..(j - 1) : ~Cycle(k, j)

\* C23: every mutating command (saveCell, addKey, deleteKey, duplicateKey) computes what it writes
\* from the content the source has on disk when the command reads it and from the
\* command's payload, never from the view's last scan: a key that an outside writer
\* added after the last scan is still there after a saveCell on another key.
C23_FreshRead ==
    \A j \in 1..Len(iolog) :
        (iolog[j].op = "write" /\ iolog[j].id # External) =>
            /\ \E i \in 1..(j - 1) : Cycle(i, j)
            /\ iolog[ReadOf(j)].content = iolog[ReadOf(j)].ondisk
            /\ iolog[j].content = RewriteFile(iolog[ReadOf(j)].ondisk, TRUE, iolog[j].cmd).content
            /\ (/\ iolog[j].cmd.cmd = "saveCell" /\ iolog[j].cmd.key = A
                /\ Holds(<<iolog[ReadOf(j)].ondisk>>, 1, B)) =>
                   /\ Holds(<<iolog[j].content>>, 1, B)
                   /\ Maps(<<iolog[j].content>>, 1, A, iolog[j].cmd.value)

\* an outside writer puts {a:'x', b:'y'} in en.json; before any scan has read it,
\* saveCell(en, a, '') reads and rewrites the file, and b is still there
C23_Witness ==
    \E e, i, j \in 1..Len(iolog) :
        /\ e < i /\ Cycle(i, j)
        /\ iolog[e].id = External /\ iolog[e].lang = En
        /\ iolog[e].content = MakeObj(<<Field(A, Str(X)), Field(B, Str(Y))>>)
        /\ \A k \in (e + 1)..(i - 1) : iolog[k].lang # En
        /\ iolog[j].cmd.cmd = "saveCell" /\ iolog[j].cmd.key = A /\ iolog[j].cmd.value = Empty
        /\ iolog[j].content = MakeObj(<<Field(A, Str(Empty)), Field(B, Str(Y))>>)
        /\ ~HasField(table.data[En], B)

\* C24: after renameLanguage(oldId, newId) succeeds, for every newId the user may
\* enter: the source under newId is the one previously under oldId, oldId is no longer
\* in the LanguageSet, and the source of every other language that existed before the
\* command is unchanged.
C24_AsStated ==
    (last.cmd = "renameLanguage" /\ last.rescanned) =>
        /\ disk[last.newKey] = prev[last.lang]
        /\ last.lang \notin LanguageSet(disk)
        /\ \A l \in LanguageSet(prev) \ {last.lang} : disk[l] = prev[l]

\* vi renamed to en while en.json exists: the translations of en are replaced by those
\* of vi, and the table shows one language where there were two
C24_Overwritten ==
    /\ last.cmd = "renameLanguage" /\ last.rescanned
    /\ last.lang = Vi /\ last.newKey = En
    /\ Parses(prev[En]) /\ Catalog(prev, En) # <<>>
    /\ Parses(prev[Vi]) /\ prev[Vi] # prev[En]
    /\ disk[En] = prev[Vi] /\ disk[Vi] = NoFile
    /\ table.languages = <<En>>
    /\ msgs = <<>>

\* C25: for every language code entered, addLanguage either creates a new empty
\* catalog for a language not yet in the LanguageSet or leaves the LanguageSet and
\* every existing language's source unchanged.
C25_AsStated ==
    last.cmd = "addLanguage" =>
        \/ disk = prev
        \/ /\ last.lang \notin LanguageSet(prev)
           /\ disk = [prev EXCEPT ![last.lang] = Obj(<<>>)]

\* the code of an existing language is entered: en.json, which held translations, is
\* now {} and the table has lost the keys only en had
C25_Emptied ==
    /\ last.cmd = "addLanguage" /\ last.rescanned /\ last.lang = En
    /\ Parses(prev[En]) /\ Catalog(prev, En) # <<>>
    /\ disk[En] = Obj(<<>>)
    /\ En \in DOMAIN table.data /\ table.data[En] = <<>>
    /\ msgs = <<>>

\* C26: after a saveCell(lang, key, value) that was written, every key other than key
\* that was in lang's flat catalog before the command is still in the re-scanned flat
\* catalog with its previous value, including keys of which key is a path prefix or
\* which are path prefixes of key.
C26_AsStated ==
    (last.cmd = "saveCell" /\ last.rescanned) =>
        \A k \in FieldNames(Catalog(prev, last.lang)) \ {last.key} :
            /\ last.lang \in DOMAIN table.data
            /\ HasField(table.data[last.lang], k)
            /\ ValueOf(table.data[last.lang], k) = ValueOf(Catalog(prev, last.lang), k)

\* en.json = {a:{b:'x'}} and the row a comes from vi.json: saveCell(en, a, 'x') is
\* written, and the key a.b of en is gone from the file and from the table
C26_KeyLost ==
    /\ last.cmd = "saveCell" /\ last.rescanned
    /\ last.lang = En /\ last.key = A /\ last.value = X
    /\ prev[En] = MakeObj(<<Field(A, MakeObj(<<Field(B, Str(X))>>))>>)
    /\ disk[En] = MakeObj(<<Field(A, Str(X))>>)
    /\ table.data[En] = <<Field(A, X)>>
    /\ msgs = <<>>

\* the languages the last command read and rewrote
Touched ==
    IF last.cmd = "saveCell" THEN {last.lang}
    ELSE IF last.cmd \in KeyCommands THEN LanguageSet(prev) ELSE {}

\* reading or parsing l's source fails, or unflattenJson throws on its edited catalog
BuildFails(l) ==
    \/ ~Parses(prev[l])
    \/ ~unflattenJson(Edit(last, Catalog(prev, l))).ok

\* C27: when reading, parsing or unflattening a language source fails during
\* saveCell, addKey, deleteKey or duplicateKey, that language's persisted source is
\* left exactly as it was.
C27_UnchangedOnError ==
    \A l \in Touched : BuildFails(l) => disk[l] = prev[l]

\* addKey a[0]: unflattenJson throws for en.json = {a:'x'}, which is left as it was
\* and reported, while vi.json is rewritten
C27_Witness ==
    /\ last.cmd = "addKey" /\ last.key = A0
    /\ prev[En] = MakeObj(<<Field(A, Str(X))>>) /\ BuildFails(En)
    /\ disk[En] = prev[En]
    /\ Msg("Error updating", En, TypeErrorThrown) \in Range(msgs)
    /\ ~BuildFails(Vi) /\ disk[Vi] # prev[Vi]

\* entry i of flat has a path that neither extends nor is extended by the path of a
\* later entry
NoLaterConflict(flat, i) ==
    \A j \in (i + 1)..Len(flat) :
        /\ ~IsProperPrefix(KeySteps(flat[i].k), KeySteps(flat[j].k))
        /\ ~IsProperPrefix(KeySteps(flat[j].k), KeySteps(flat[i].k))

\* C28: for every flat catalog of string keys and string values, in every iteration
\* order, unflattenJson returns a document without throwing, and every entry whose
\* path is not a prefix-conflict with a later entry is retrievable at its path.
C28_AsStated ==
    (cpc = "rebuilt" /\ ~FromDoc) =>
        /\ cout.ok
        /\ \A i \in 1..Len(cflat) :
               NoLaterConflict(cflat, i) =>
                   HeldAt(cout.doc, KeySteps(cflat[i].k)) = Str(cflat[i].v)

\* {'a[0]': 'x', 'a[0].b': 'x'}: the second key descends below an array element that
\* holds a string, and unflattenJson throws
C28_Thrown ==
    /\ cpc = "rebuilt" /\ ~FromDoc
    /\ cflat = <<Field(A0, X), Field(A0B, X)>>
    /\ ~cout.ok

\* the iteration orders of a catalog of n entries
Orders(n) == {p \in [1..n -> 1..n] : \A i, j \in 1..n : i # j => p[i] # p[j]}
Reordered(flat, p) == [i \in 1..Len(flat) |-> flat[p[i]]]

\* two calls end alike: both throw, or both return and the documents are deep-equal
SameOutcome(r, s) == r.ok = s.ok /\ (r.ok => DeepEqual(r.doc, s.doc))

\* C29: for every flat catalog in which no key's path is a proper prefix of another
\* key's path, unflattenJson returns deep-equal documents for every iteration order of
\* the entries, also when leaf keys name[i] and deeper keys name[j].field address the
\* same array.
C29_AsStated ==
    (cpc = "rebuilt" /\ ~FromDoc /\ PrefixFree(cflat)) =>
        /\ cout.ok
        /\ \A p \in Orders(Len(cflat)) : SameOutcome(unflattenJson(Reordered(cflat, p)), cout)

\* {'a[1]': 'x', 'a[0].b': 'x'}: in this order index 0 is filled with '' and the second
\* key throws below it; in the other order the call returns [{b:'x'}, 'x']
C29_OrderMatters ==
    /\ cpc = "rebuilt" /\ ~FromDoc
    /\ cflat = <<Field(A1, X), Field(A0B, X)>>
    /\ PrefixFree(cflat)
    /\ ~cout.ok
    /\ unflattenJson(<<Field(A0B, X), Field(A1, X)>>) =
           Returned(MakeObj(<<Field(A, Arr(<<MakeObj(<<Field(B, Str(X))>>), Str(X)>>))>>))

----------------------------------------------------------------------------
(* The table cell of the webview: what renderTable puts in it, what        *)
(* handleCellBlur reads back from it, and the saveCell it may post.        *)

MaxBlurs == 2        \* cells that lose focus

Space == <<" ">>
Whitespace == {" ", "\n"}
Letters == {"a", "b", "c", "e", "h", "l", "o", "x", "y"}

\* String.prototype.trim
RECURSIVE TrimStart(_), TrimEnd(_)
TrimStart(s) == IF s # <<>> /\ Head(s) \in Whitespace THEN TrimStart(Tail(s)) ELSE s
TrimEnd(s) ==
    IF s # <<>> /\ s[Len(s)] \in Whitespace THEN TrimEnd(SubSeq(s, 1, Len(s) - 1)) ELSE s
Trim(s) == TrimEnd(TrimStart(s))

\* the text after the first '>' of s, nothing when there is none
RECURSIVE AfterTag(_)
AfterTag(s) ==
    IF s = <<>> THEN <<>> ELSE IF Head(s) = ">" THEN Tail(s) ELSE AfterTag(Tail(s))

\* td.textContent after td.innerHTML = `<div>${value}</div>`: the value is parsed as
\* HTML, so '<' followed by a letter or '/' opens a tag, which is not text
RECURSIVE TextContent(_)
TextContent(s) ==
    IF s = <<>> THEN <<>>
    ELSE IF Head(s) = "<" /\ Len(s) >= 2 /\ s[2] \in Letters \cup {"/"}
    THEN TextContent(AfterTag(s))
    ELSE <<Head(s)>> \o TextContent(Tail(s))

\* const newValue = td.textContent.trim()
CellValue(text) == Trim(text)

BlurContents ==
    {MakeObj(<<>>),
     MakeObj(<<Field(A, Str(X))>>),
     MakeObj(<<Field(A, Str(Empty))>>),
     MakeObj(<<Field(A, Str(<<" ", "x", " ">>))>>),
     MakeObj(<<Field(A, Str(Space))>>),
     MakeObj(<<Field(A, Str(<<"<", "b", ">", "x">>))>>),
     MakeObj(<<Field(B, Str(<<"x", " ", "y">>))>>)}

\* what the user may type into a cell before leaving it
TypedTexts == {Empty, X, <<"x", " ">>, <<"x", " ", "y">>}

BlurInit ==
    /\ disk \in {[l \in LangUniverse |-> IF l = En THEN e ELSE IF l = Vi THEN v ELSE NoFile] :
                    e \in BlurContents, v \in BlurContents}
    /\ readonly = {}
    /\ table = TableOf(collectData(disk))
    /\ view = renderTable(table)
    /\ msgs = collectData(disk).errors
    /\ prompts = NoPrompt /\ last = NoCmd /\ prev = disk /\ ncmd = 0
    /\ CodecIdle /\ LoopIdle

\* handleCellBlur for the cell (lang, key) holding text; case 'saveCell' handles the
\* message when one is posted
handleCellBlur(lang, key, text, untouched) ==
    IF CellValue(text) # CellText(lang, key)
    THEN SaveCellOf([NoCmd EXCEPT !.cmd = "saveCell", !.lang = lang, !.key = key,
                                  !.value = CellValue(text), !.untouched = untouched])
    ELSE /\ last' = [NoCmd EXCEPT !.cmd = "blur", !.lang = lang, !.key = key,
                                  !.value = CellValue(text), !.untouched = untouched]
         /\ prev' = disk
         /\ msgs' = <<>>
         /\ UNCHANGED <<disk, table, view>>

\* a cell loses focus, or Enter is pressed in it, and the user has not changed its text
BlurUntouched ==
    /\ ncmd < MaxBlurs
    /\ \E c \in DOMAIN view : handleCellBlur(c[1], c[2], TextContent(view[c].text), TRUE)
    /\ ncmd' = ncmd + 1
    /\ UNCHANGED <<readonly, prompts, CodecVars, LoopVars>>

\* the user replaces the text of a cell and leaves it
BlurEdited ==
    /\ ncmd < MaxBlurs
    /\ \E c \in DOMAIN view, text \in TypedTexts :
           /\ text # TextContent(view[c].text)
           /\ handleCellBlur(c[1], c[2], text, FALSE)
    /\ ncmd' = ncmd + 1
    /\ UNCHANGED <<readonly, prompts, CodecVars, LoopVars>>

BlurNext == BlurUntouched \/ BlurEdited

BlurSpec == BlurInit /\ [][BlurNext]_vars

\* C30: when a table cell loses focus (or Enter is pressed) and the user has not
\* changed its text, the webview sends no saveCell command and the language's source
\* is not modified, for every stored value, values with leading or trailing whitespace
\* included.
C30_AsStated ==
    last.untouched => (last.cmd = "blur" /\ disk = prev)

\* en.json = {a: ' x '}: the untouched cell (en, a) loses focus, saveCell is sent with
\* 'x' and the file is rewritten without the spaces
C30_Rewritten ==
    /\ last.untouched /\ last.cmd = "saveCell" /\ last.rescanned
    /\ last.lang = En /\ last.key = A /\ last.value = X
    /\ prev[En] = MakeObj(<<Field(A, Str(<<" ", "x", " ">>))>>)
    /\ disk[En] = MakeObj(<<Field(A, Str(X))>>)

\* a stored value without whitespace around it and without markup: no message
C30_NoOp ==
    /\ last.untouched /\ last.cmd = "blur" /\ disk = prev
    /\ last.lang = Vi /\ last.key = B
    /\ prev[Vi] = MakeObj(<<Field(B, Str(<<"x", " ", "y">>))>>)

====
